---- MODULE Spec2Model ----
(***************************************************************************)
(* Billing-rule execution engine of portal-backend: the ProgressTracker    *)
(* (services/progress_tracker.py), the rule engines Rule21 and Rule22      *)
(* (rules/rules/rule_21.py, rule_22.py) and the orchestrator               *)
(* execute_rules_background with its submit endpoint (router/rules.py).    *)
(*                                                                         *)
(* Percentages are Python floats in the source; here they are exact        *)
(* rationals <<numerator, denominator>> in lowest terms.                   *)
(***************************************************************************)
EXTENDS Integers, Sequences, FiniteSets, TLC

VARIABLES
    progress_store,   \* ProgressTracker._progress_store: execution id -> entry
    t_args,           \* arguments of the create_execution call of a tracker run
    t_last,           \* the tracker mutator called last, with its arguments
    athena,           \* the remote system: appointments and encounter services
    e_patients,       \* the patients the rule engines are run on
    e_last,           \* the last run of a rule engine: request, oracle, outcome
    pc,               \* where the submit endpoint and its background task stand
    unified_request,  \* the UnifiedRuleRequest submitted
    response,         \* the UnifiedRuleResponse the endpoint returned
    task,             \* the locals of execute_rules_background
    tasks_created,    \* number of background tasks created by the endpoint
    runs_db,          \* the "runs" container: project id -> project document
    execution_results_store   \* _execution_results_store: execution id -> response

tracker_vars == <<progress_store, t_args, t_last>>
engine_vars == <<athena, e_patients, e_last>>
orch_vars ==
    <<pc, unified_request, response, task, tasks_created, runs_db, execution_results_store>>
vars ==
    <<progress_store, t_args, t_last, athena, e_patients, e_last, pc, unified_request,
      response,
      task, tasks_created, runs_db, execution_results_store>>

(***************************************************************************)
(* Bounds of the model.                                                    *)
(***************************************************************************)
MaxRules == 2
MaxCalls == 3

(***************************************************************************)
(* Exact arithmetic for the float percentages.                             *)
(***************************************************************************)
RECURSIVE GCD(_, _)
GCD(a, b) ==
    IF b = 0 THEN a ELSE GCD(b, a % b)

Rat(n, d) ==
    LET g == GCD(n, d) IN IF n = 0 THEN <<0, 1>> ELSE <<n \div g, d \div g>>

RatAdd(x, y) ==
    Rat(x[1] * y[2] + y[1] * x[2], x[2] * y[2])

RatDivInt(x, n) ==
    Rat(x[1], x[2] * n)

RatLeq(x, y) ==
    x[1] * y[2] <= y[1] * x[2]

RatMin(x, y) ==
    IF RatLeq(x, y) THEN x ELSE y

Zero == Rat(0, 1)
Hundred == Rat(100, 1)

(***************************************************************************)
(* Requests: rule numbers as the API receives them.  21 and 22 are the two *)
(* rules the orchestrator knows; 99 stands for any other number.           *)
(***************************************************************************)
RuleNums == {21, 22, 99}

RulesLists ==
    UNION {[1..n -> RuleNums] : n \in 0..MaxRules}

\* str(rule_number): the key of a rule in the tracker's "rules" dict
str(n) ==
    CASE n = 21 -> "21"
      [] n = 22 -> "22"
      [] OTHER -> "99"

Range(s) ==
    {s[i] : i \in DOMAIN s}

(***************************************************************************)
(* ProgressTracker                                                         *)
(***************************************************************************)
PENDING == "pending"
RUNNING == "running"
COMPLETED == "completed"
ERROR == "error"

EmptyStore == <<>>

\* uuid.uuid4(): an id no entry of the store has
NewExecutionId(store) ==
    Len(store) + 1

create_execution(store, total_patients, rules) ==
    LET rule_progress ==
            [k \in {str(r) : r \in Range(rules)} |->
                [percentage |-> Zero,
                 patients_processed |-> 0,
                 total_patients |-> total_patients,
                 status |-> PENDING]]
        entry ==
            [status |-> PENDING,
             overall |->
                [percentage |-> Zero,
                 patients_processed |-> 0,
                 total_patients |-> total_patients,
                 current_rule |-> IF rules # <<>> THEN <<rules[1]>> ELSE <<>>,
                 total_rules |-> Len(rules),
                 rules_completed |-> 0],
             rules |-> rule_progress,
             has_error_message |-> FALSE]
    IN  Append(store, entry)

start_execution(store, execution_id) ==
    IF execution_id \in DOMAIN store
    THEN [store EXCEPT ![execution_id].status = RUNNING]
    ELSE store

start_rule(store, execution_id, rule_number) ==
    IF execution_id \in DOMAIN store /\ str(rule_number) \in DOMAIN store[execution_id].rules
    THEN [store EXCEPT
            ![execution_id].rules[str(rule_number)].status = RUNNING,
            ![execution_id].overall.current_rule = <<rule_number>>]
    ELSE store

RECURSIVE SumPercentage(_, _)
SumPercentage(rules, keys) ==
    IF keys = {} THEN Zero
    ELSE LET k == CHOOSE x \in keys : TRUE
         IN  RatAdd(rules[k].percentage, SumPercentage(rules, keys \ {k}))

RECURSIVE SumProcessed(_, _)
SumProcessed(rules, keys) ==
    IF keys = {} THEN 0
    ELSE LET k == CHOOSE x \in keys : TRUE
         IN  rules[k].patients_processed + SumProcessed(rules, keys \ {k})

update_overall_progress(store, execution_id) ==
    IF execution_id \notin DOMAIN store THEN store
    ELSE LET progress == store[execution_id]
             total_rules == progress.overall.total_rules
         IN  IF total_rules = 0
             THEN [store EXCEPT ![execution_id].overall.percentage = Zero]
             ELSE [store EXCEPT
                     ![execution_id].overall.percentage =
                         RatDivInt(SumPercentage(progress.rules, DOMAIN progress.rules),
                                   total_rules),
                     ![execution_id].overall.patients_processed =
                         SumProcessed(progress.rules, DOMAIN progress.rules)]

\* update_rule_progress without the clamp of line 135
update_rule_progress_unclamped(store, execution_id, rule_number, patients_processed) ==
    IF execution_id \notin DOMAIN store THEN store
    ELSE IF str(rule_number) \notin DOMAIN store[execution_id].rules THEN store
    ELSE update_overall_progress(
            [store EXCEPT
                ![execution_id].rules[str(rule_number)].patients_processed = patients_processed,
                ![execution_id].rules[str(rule_number)].percentage =
                    IF store[execution_id].rules[str(rule_number)].total_patients > 0
                    THEN Rat(100 * patients_processed,
                             store[execution_id].rules[str(rule_number)].total_patients)
                    ELSE Zero],
            execution_id)

update_rule_progress(store, execution_id, rule_number, patients_processed) ==
    IF execution_id \notin DOMAIN store THEN store
    ELSE IF str(rule_number) \notin DOMAIN store[execution_id].rules THEN store
    ELSE LET rule_key == str(rule_number)
             total_patients == store[execution_id].rules[rule_key].total_patients
             updated ==
                [store EXCEPT
                    ![execution_id].rules[rule_key].patients_processed = patients_processed,
                    ![execution_id].rules[rule_key].percentage =
                        IF total_patients > 0
                        THEN RatMin(Rat(patients_processed * 100, total_patients), Hundred)
                        ELSE Zero]
         IN  update_overall_progress(updated, execution_id)

complete_rule(store, execution_id, rule_number) ==
    IF execution_id \in DOMAIN store /\ str(rule_number) \in DOMAIN store[execution_id].rules
    THEN LET rule_key == str(rule_number)
             updated ==
                [store EXCEPT
                    ![execution_id].rules[rule_key].status = COMPLETED,
                    ![execution_id].rules[rule_key].patients_processed =
                        store[execution_id].rules[rule_key].total_patients,
                    ![execution_id].rules[rule_key].percentage = Hundred,
                    ![execution_id].overall.rules_completed = @ + 1]
         IN  update_overall_progress(updated, execution_id)
    ELSE store

\* complete_execution that leaves the status as it is
complete_execution_keeping_status(store, execution_id, success) ==
    IF execution_id \in DOMAIN store
    THEN [store EXCEPT
            ![execution_id].overall.percentage = Hundred,
            ![execution_id].overall.current_rule = <<>>]
    ELSE store

complete_execution(store, execution_id, success) ==
    IF execution_id \in DOMAIN store
    THEN [store EXCEPT
            ![execution_id].status = IF success THEN COMPLETED ELSE ERROR,
            ![execution_id].overall.percentage = Hundred,
            ![execution_id].overall.current_rule = <<>>]
    ELSE store

\* set_execution_error that leaves the execution as it is
set_execution_error_unmarked(store, execution_id) ==
    store

set_execution_error(store, execution_id) ==
    IF execution_id \in DOMAIN store
    THEN [store EXCEPT
            ![execution_id].status = ERROR,
            ![execution_id].has_error_message = TRUE]
    ELSE store

NotFound == [found |-> FALSE]

DefaultRuleProgress ==
    [percentage |-> Zero, patients_processed |-> 0, total_patients |-> 0, status |-> PENDING]

\* get_progress that answers an unknown id with the state of a new execution
get_progress_of_any_id(store, execution_id) ==
    IF execution_id \notin DOMAIN store
    THEN [found |-> TRUE, execution_id |-> execution_id, status |-> PENDING,
          overall |-> [percentage |-> Zero, patients_processed |-> 0, total_patients |-> 0,
                       current_rule |-> <<>>, total_rules |-> 0, rules_completed |-> 0],
          rule_21 |-> DefaultRuleProgress, rule_22 |-> DefaultRuleProgress,
          has_error_message |-> FALSE]
    ELSE LET progress == store[execution_id]
         IN  [found |-> TRUE,
              execution_id |-> execution_id,
              status |-> progress.status,
              overall |-> progress.overall,
              rule_21 |-> IF "21" \in DOMAIN progress.rules
                          THEN progress.rules["21"] ELSE DefaultRuleProgress,
              rule_22 |-> IF "22" \in DOMAIN progress.rules
                          THEN progress.rules["22"] ELSE DefaultRuleProgress,
              has_error_message |-> progress.has_error_message]

get_progress(store, execution_id) ==
    IF execution_id \notin DOMAIN store THEN NotFound
    ELSE LET progress == store[execution_id]
         IN  [found |-> TRUE,
              execution_id |-> execution_id,
              status |-> progress.status,
              overall |-> progress.overall,
              rule_21 |-> IF "21" \in DOMAIN progress.rules
                          THEN progress.rules["21"] ELSE DefaultRuleProgress,
              rule_22 |-> IF "22" \in DOMAIN progress.rules
                          THEN progress.rules["22"] ELSE DefaultRuleProgress,
              has_error_message |-> progress.has_error_message]

(***************************************************************************)
(* Codes.  Procedure and ICD-10 codes are strings in the source; here a    *)
(* code is the sequence of its characters, so that startswith, endswith    *)
(* and the substring test `target_code in procedure_code` are computed.    *)
(***************************************************************************)
eligible_codes ==
    {
     <<"9", "9", "2", "0", "2">>, <<"9", "9", "2", "0", "3">>, <<"9", "9", "2", "0", "4">>,
     <<"9", "9", "2", "0", "5">>, <<"9", "9", "2", "1", "2">>, <<"9", "9", "2", "1", "3">>,
     <<"9", "9", "2", "1", "4">>, <<"9", "9", "2", "1", "5">>
    }

injection_codes ==
    {
     <<"2", "0", "5", "2", "6">>, <<"2", "0", "5", "2", "7">>, <<"2", "0", "5", "5", "0">>,
     <<"2", "0", "5", "5", "1">>, <<"2", "0", "5", "5", "2">>, <<"2", "0", "5", "5", "3">>,
     <<"2", "0", "6", "0", "0">>, <<"2", "0", "6", "0", "4">>, <<"2", "0", "6", "0", "5">>,
     <<"2", "0", "6", "1", "0">>, <<"2", "0", "6", "1", "1">>
    }

target_procedure_codes ==
    {
     <<"7", "2", "1", "7", "0">>, <<"7", "2", "1", "9", "0">>, <<"7", "3", "0", "0", "0">>,
     <<"7", "3", "0", "1", "0">>, <<"7", "3", "0", "3", "0">>, <<"7", "3", "0", "6", "0">>,
     <<"7", "3", "0", "7", "0">>, <<"7", "3", "0", "8", "0">>, <<"7", "3", "1", "1", "0">>,
     <<"7", "3", "1", "3", "0">>, <<"7", "3", "1", "4", "0">>, <<"7", "3", "5", "0", "2">>,
     <<"7", "3", "5", "2", "1">>, <<"7", "3", "5", "2", "2">>, <<"7", "3", "5", "5", "2">>,
     <<"7", "3", "5", "6", "2">>, <<"7", "3", "5", "6", "4">>, <<"7", "3", "5", "6", "5">>,
     <<"7", "3", "5", "9", "0">>, <<"7", "3", "6", "1", "0">>, <<"7", "3", "6", "3", "0">>,
     <<"7", "3", "6", "5", "0">>
    }

C73564 == <<"7", "3", "5", "6", "4">>
C73560 == <<"7", "3", "5", "6", "0">>
C73030 == <<"7", "3", "0", "3", "0">>
C99213 == <<"9", "9", "2", "1", "3">>
C20610 == <<"2", "0", "6", "1", "0">>
C36415 == <<"3", "6", "4", "1", "5">>
Z0189 == <<"Z", "0", "1", "8", "9">>
EmptyCode == <<>>

startswith(code, ch) ==
    Len(code) >= 1 /\ code[1] = ch

endswith(code, ch) ==
    Len(code) >= 1 /\ code[Len(code)] = ch

\* Python's `needle in hay` on strings
IsSubstring(needle, hay) ==
    \E i \in 0..(Len(hay) - Len(needle)) :
        \A j \in 1..Len(needle) : hay[i + j] = needle[j]

\* any(target_code in procedure_code for target_code in self.target_procedure_codes)
MatchesTarget(procedure_code) ==
    \E target_code \in target_procedure_codes : IsSubstring(target_code, procedure_code)

(***************************************************************************)
(* The remote health-records system as the rule engines see it.            *)
(*   remote.appointments : appointment id -> appointment                   *)
(*   remote.services     : encounter id -> sequence of procedures          *)
(* An appointment is [date, encounterstatus, chargeentrynotrequired,       *)
(* claims, encounterid]; claims is a sequence of claims, each the sequence *)
(* of its procedures; encounterid NoId stands for the empty string.  A     *)
(* procedure is [procedurecode, serviceid, diagnoses, modifiers].          *)
(* An oracle fixes which remote calls of one run fail.                     *)
(***************************************************************************)
NoId == 0

\* dict.get(key, default)
Get(d, key, default) ==
    IF key \in DOMAIN d THEN d[key] ELSE default

\* the remote system's answer to PUT .../encounter/{id}/services/{service_id}:
\* the service's modifiers become those of the request
RemotePut(remote, encounter_id, service_id, modifiers, icd10codes) ==
    [remote EXCEPT !.services[encounter_id] =
        [i \in DOMAIN @ |->
            IF @[i].serviceid = service_id
            THEN [@[i] EXCEPT
                    !.modifiers = modifiers,
                    !.diagnoses = IF icd10codes = <<>> \/ icd10codes = <<EmptyCode>>
                                  THEN @
                                  ELSE <<[icd10code |-> icd10codes[1]]>>]
            ELSE @[i]]]

\* one PUT of a run: the request is logged, and applied unless the call fails
PutService(st, fn, encounter_id, service_id, modifiers, icd10codes, oracle) ==
    LET ok == service_id \notin oracle.write_fails
                /\ encounter_id \in DOMAIN st.remote.services
    IN  [st |->
            [remote |-> IF ok
                        THEN RemotePut(st.remote, encounter_id, service_id, modifiers, icd10codes)
                        ELSE st.remote,
             log |-> Append(st.log,
                        [fn |-> fn, encounter_id |-> encounter_id, service_id |-> service_id,
                         modifiers |-> modifiers, icd10codes |-> icd10codes, ok |-> ok])],
         ok |-> ok]

get_appointment_for_patient(remote, patient, oracle) ==
    IF patient.appointmentid \in oracle.appointment_fails THEN <<>>
    ELSE IF patient.appointmentid \in DOMAIN remote.appointments
         THEN <<remote.appointments[patient.appointmentid]>>
         ELSE <<>>

get_encounter_services(remote, encounter_id, oracle) ==
    IF encounter_id \in oracle.services_fail THEN <<>>
    ELSE IF encounter_id \in DOMAIN remote.services
         THEN remote.services[encounter_id]
         ELSE <<>>

(***************************************************************************)
(* Rule 21                                                                 *)
(***************************************************************************)
\* a status derivation that does not tell the missing code family
Rule21_determine_status_and_reason_unspecific(slip, modifier_added) ==
    IF ~Get(slip, "addmodifier", FALSE)
    THEN <<3, "not eligible for modifier: missing required procedure codes">>
    ELSE IF modifier_added
         THEN <<1, "modifier 25 added">>
         ELSE <<2, "modifier 25 already exists">>

Rule21_determine_status_and_reason(slip, modifier_added) ==
    IF ~Get(slip, "addmodifier", FALSE)
    THEN LET has_eligible == Get(slip, "has_eligible_code", FALSE)
             has_injection == Get(slip, "has_injection_code", FALSE)
         IN  IF has_eligible /\ ~has_injection
             THEN <<3, "not eligible for modifier: E&M codes present but missing injection codes">>
             ELSE IF has_injection /\ ~has_eligible
             THEN <<3, "not eligible for modifier: injection codes present but missing E&M visit codes">>
             ELSE <<3, "not eligible for modifier: missing required procedure codes">>
    ELSE IF modifier_added
         THEN <<1, "modifier 25 added">>
         ELSE <<2, "modifier 25 already exists">>

is_missing_slip(appointment) ==
    IF appointment.date = "today_or_future" THEN <<FALSE, "Future appointment">>
    ELSE IF appointment.encounterstatus = "CLOSED" THEN <<FALSE, "Encounter status is CLOSED">>
    ELSE IF appointment.chargeentrynotrequired THEN <<FALSE, "Charge entry not required">>
    ELSE IF appointment.claims = <<>> THEN <<TRUE, "No claims found">>
    ELSE IF \A c \in DOMAIN appointment.claims : appointment.claims[c] = <<>>
         THEN <<TRUE, "No procedures found in claims">>
         ELSE <<FALSE, "Slip appears complete">>

check_procedure_codes_detailed(procedures) ==
    LET has_eligible_code ==
            \E i \in DOMAIN procedures : procedures[i].procedurecode \in eligible_codes
        has_injection_code ==
            \E i \in DOMAIN procedures : procedures[i].procedurecode \in injection_codes
    IN  [has_eligible_code |-> has_eligible_code,
         has_injection_code |-> has_injection_code,
         has_both |-> has_eligible_code /\ has_injection_code]

update_service_with_modifier_25(st, encounter_id, service_id, oracle) ==
    PutService(st, "update_service_with_modifier_25", encounter_id, service_id,
               <<"25">>, <<>>, oracle)

rollback_service_modifier_25(st, encounter_id, service_id, oracle) ==
    LET Answer(r) ==
            [st |-> r.st, ok |-> r.ok,
             reason |-> IF r.ok THEN "Modifier 25 removed successfully"
                        ELSE IF oracle.write_failure = "timeout" THEN "Request timed out"
                        ELSE "Cannot remove modifier: claim already created for this encounter"]
    IN  Answer(PutService(st, "rollback_service_modifier_25", encounter_id, service_id,
                          <<>>, <<>>, oracle))

\* the loop over the fetched procedures that adds modifier 25
RECURSIVE Rule21_add_loop(_, _, _, _, _, _)
Rule21_add_loop(procedures, i, encounter_id, st, oracle, added) ==
    LET Continue(r) ==
            Rule21_add_loop(procedures, i + 1, encounter_id, r.st, oracle, added \/ r.ok)
    IN  IF i > Len(procedures) THEN [st |-> st, modifier_added_successfully |-> added]
        ELSE IF (procedures[i].procedurecode \in eligible_codes
                    \/ procedures[i].procedurecode \in injection_codes)
                /\ procedures[i].serviceid # NoId
        THEN Continue(update_service_with_modifier_25(st, encounter_id,
                                                      procedures[i].serviceid, oracle))
        ELSE Continue([st |-> st, ok |-> FALSE])

\* a check that writes whenever both code families are present
should_add_modifier_25_unasked(addmodifier, add_modifiers) ==
    addmodifier

\* lines 452-458: "if addmodifier:" and, inside it, "if add_modifiers:"
should_add_modifier_25(addmodifier, add_modifiers) ==
    addmodifier /\ add_modifiers

\* one iteration of the patient loop of apply_rule_conditions_to_patients
Rule21_apply_patient(patient, add_modifiers, st, oracle) ==
    LET Result(encounter_id, code_details, written, missing_reason) ==
            [st |-> written.st,
             result |-> [patient_id |-> patient.patientid,
                         appointment_id |-> patient.appointmentid,
                         encounter_id |-> encounter_id,
                         addmodifier |-> code_details.has_both,
                         has_eligible_code |-> code_details.has_eligible_code,
                         has_injection_code |-> code_details.has_injection_code,
                         modifier_added_successfully |-> written.modifier_added_successfully,
                         missing_reason |-> missing_reason]]
        NoCodes == [has_eligible_code |-> FALSE, has_injection_code |-> FALSE,
                    has_both |-> FALSE]
        NotWritten == [st |-> st, modifier_added_successfully |-> FALSE]
        Write(encounter_id, procedures, code_details, missing_reason) ==
            Result(encounter_id, code_details,
                   IF should_add_modifier_25(code_details.has_both, add_modifiers)
                   THEN Rule21_add_loop(procedures, 1, encounter_id, st, oracle, FALSE)
                   ELSE NotWritten,
                   missing_reason)
        Check(encounter_id, procedures, missing_reason) ==
            Write(encounter_id, procedures,
                  IF procedures # <<>> THEN check_procedure_codes_detailed(procedures)
                  ELSE NoCodes,
                  missing_reason)
        Slip(appointment, missing) ==
            IF ~missing[1]
            THEN Result(appointment.encounterid, NoCodes, NotWritten,
                        "Does not meet missing slip criteria")
            ELSE Check(appointment.encounterid,
                       IF appointment.encounterid # NoId
                       THEN get_encounter_services(st.remote, appointment.encounterid, oracle)
                       ELSE <<>>,
                       missing[2])
        Appointment(appointment_data) ==
            IF appointment_data = <<>>
            THEN Result(NoId, NoCodes, NotWritten, "No appointment data found")
            ELSE Slip(appointment_data[1], is_missing_slip(appointment_data[1]))
    IN  Appointment(get_appointment_for_patient(st.remote, patient, oracle))

RECURSIVE Rule21_apply_patients(_, _, _, _, _, _)
Rule21_apply_patients(patients, i, add_modifiers, st, oracle, results) ==
    LET Continue(r) ==
            Rule21_apply_patients(patients, i + 1, add_modifiers, r.st, oracle,
                                  Append(results, r.result))
    IN  IF i > Len(patients) THEN [st |-> st, results |-> results]
        ELSE Continue(Rule21_apply_patient(patients[i], add_modifiers, st, oracle))

\* raised: get_access_token raised before the first patient
Rule21_apply_rule_conditions_to_patients(patients, add_modifiers, st, oracle) ==
    LET Return(r) == [raised |-> FALSE, st |-> r.st, results |-> r.results]
    IN  IF patients = <<>> THEN [raised |-> FALSE, st |-> st, results |-> <<>>]
        ELSE IF oracle.token_fails THEN [raised |-> TRUE, st |-> st, results |-> <<>>]
        ELSE Return(Rule21_apply_patients(patients, 1, add_modifiers, st, oracle, <<>>))

\* the loop over the fetched procedures that removes modifier 25
RECURSIVE Rule21_remove_loop(_, _, _, _, _, _, _)
Rule21_remove_loop(procedures, i, encounter_id, st, oracle, removed, reason) ==
    LET Continue(r) ==
            Rule21_remove_loop(procedures, i + 1, encounter_id, r.st, oracle,
                removed \/ r.ok,
                IF r.ok THEN "Modifier 25 removed from <procedure_code>"
                ELSE IF ~removed
                     THEN IF r.reason = "Request timed out"
                          THEN "Eligible for rollback but request timed out"
                          ELSE "Eligible for rollback but cannot remove modifier: claim already created for this encounter"
                     ELSE reason)
    IN  IF i > Len(procedures)
        THEN [st |-> st, modifier_removed |-> removed, reason |-> reason]
        ELSE IF (procedures[i].procedurecode \in eligible_codes
                    \/ procedures[i].procedurecode \in injection_codes)
                /\ procedures[i].serviceid # NoId
        THEN Continue(rollback_service_modifier_25(st, encounter_id,
                                                   procedures[i].serviceid, oracle))
        ELSE Rule21_remove_loop(procedures, i + 1, encounter_id, st, oracle, removed, reason)

\* one iteration of the patient loop of rollback_rule_conditions_to_patients
Rule21_rollback_patient(patient, st, oracle) ==
    LET Result(encounter_id, done) ==
            [st |-> done.st,
             result |-> [patient_id |-> patient.patientid,
                         appointment_id |-> patient.appointmentid,
                         encounter_id |-> encounter_id,
                         modifier_removed |-> done.modifier_removed,
                         reason |-> done.reason]]
        Nothing(reason) == [st |-> st, modifier_removed |-> FALSE, reason |-> reason]
        Remove(encounter_id, procedures) ==
            Result(encounter_id,
                   IF procedures = <<>> THEN Nothing("No procedures found in encounter")
                   ELSE Rule21_remove_loop(procedures, 1, encounter_id, st, oracle, FALSE,
                            "No eligible services found for rollback (no matching procedure codes)"))
        Appointment(appointment_data) ==
            IF appointment_data = <<>>
            THEN Result(NoId, Nothing("No appointment data found"))
            ELSE IF appointment_data[1].encounterid = NoId
            THEN Result(NoId, Nothing("No encounter ID found for appointment"))
            ELSE Remove(appointment_data[1].encounterid,
                        get_encounter_services(st.remote, appointment_data[1].encounterid,
                                               oracle))
    IN  Appointment(get_appointment_for_patient(st.remote, patient, oracle))

RECURSIVE Rule21_rollback_patients(_, _, _, _, _)
Rule21_rollback_patients(patients, i, st, oracle, results) ==
    LET Continue(r) ==
            Rule21_rollback_patients(patients, i + 1, r.st, oracle, Append(results, r.result))
    IN  IF i > Len(patients) THEN [st |-> st, results |-> results]
        ELSE Continue(Rule21_rollback_patient(patients[i], st, oracle))

Rule21_rollback_rule_conditions_to_patients(patients, st, oracle) ==
    LET Return(r) == [raised |-> FALSE, st |-> r.st, results |-> r.results]
    IN  IF patients = <<>> THEN [raised |-> FALSE, st |-> st, results |-> <<>>]
        ELSE IF oracle.token_fails THEN [raised |-> TRUE, st |-> st, results |-> <<>>]
        ELSE Return(Rule21_rollback_patients(patients, 1, st, oracle, <<>>))

\* the first element of patient_results whose patient_id is the patient's
MatchingResult(patient_results, patientid) ==
    LET hits == {i \in DOMAIN patient_results : patient_results[i].patient_id = patientid}
    IN  IF hits = {} THEN <<>>
        ELSE <<patient_results[CHOOSE i \in hits : \A j \in hits : i <= j]>>

\* the 'needle in reason.lower()' tests of Rule21.run, on the reasons the engine produces
ReasonHasClaimAlreadyBeenCreated(reason) ==
    FALSE

ReasonHasNoEligibleOrNoProcedures(reason) ==
    reason \in {"No eligible services found for rollback (no matching procedure codes)",
                "No procedures found in encounter"}

\* the error results of the first requested patient only
ErrorResults_of_first(patients, reason) ==
    [i \in {1} |->
        [patientid |-> patients[i].patientid, appointmentid |-> patients[i].appointmentid,
         status |-> 4, reason |-> reason]]

\* the except branch and the empty-results branch of run: status 4 for every
\* requested patient
ErrorResults(patients, reason) ==
    [i \in DOMAIN patients |->
        [patientid |-> patients[i].patientid, appointmentid |-> patients[i].appointmentid,
         status |-> 4, reason |-> reason]]

\* lines 787-842 of Rule21.run: one PatientResult per requested patient
Rule21_result_for(patient, patient_results, is_rollback) ==
    LET matching_result == MatchingResult(patient_results, patient.patientid)
    IN  IF matching_result = <<>>
        THEN [patientid |-> patient.patientid, appointmentid |-> patient.appointmentid,
              status |-> 4, reason |-> "error: Patient data not found"]
        ELSE IF is_rollback
        THEN LET modifier_removed == Get(matching_result[1], "modifier_removed", FALSE)
                 reason == Get(matching_result[1], "reason", "Unknown error")
             IN  [patientid |-> patient.patientid, appointmentid |-> patient.appointmentid,
                  status |-> IF modifier_removed THEN 1 ELSE 3,
                  reason |->
                     IF modifier_removed THEN reason
                     ELSE IF ReasonHasClaimAlreadyBeenCreated(reason)
                     THEN "not eligible for rollback: claim already created, cannot modify services"
                     ELSE IF ReasonHasNoEligibleOrNoProcedures(reason)
                     THEN "not eligible for rollback: no modifier 25 found to remove"
                     ELSE IF reason = "Unknown error"
                     THEN "Eligible for rollback but claim already created"
                     ELSE reason]
        ELSE LET sr == Rule21_determine_status_and_reason(
                            matching_result[1],
                            Get(matching_result[1], "modifier_added_successfully", FALSE))
             IN  [patientid |-> patient.patientid, appointmentid |-> patient.appointmentid,
                  status |-> sr[1], reason |-> sr[2]]

\* Rule21.run.  The statements after the `else:` of line 738 are at the level of
\* the `if`, so the apply path (line 763) runs in rollback mode as well and its
\* results replace the rollback results.
Rule21_run(request, st0, oracle) ==
    LET st == [remote |-> st0.remote, log |-> <<>>]
        Respond(rolled, applied) ==
            IF rolled.raised \/ (~request.is_rollback /\ oracle.token_fails)
            THEN [success |-> FALSE, st |-> st,
                  results |-> ErrorResults(request.patients, "error: <exception>")]
            ELSE IF applied.results = <<>>
            THEN [success |-> FALSE, st |-> applied.st,
                  results |-> ErrorResults(request.patients, "error: No patient data found")]
            ELSE [success |-> TRUE, st |-> applied.st,
                  results |-> [i \in DOMAIN request.patients |->
                                  Rule21_result_for(request.patients[i], applied.results,
                                                    request.is_rollback)]]
        Apply(rolled) ==
            Respond(rolled,
                    Rule21_apply_rule_conditions_to_patients(
                        request.patients, request.add_modifiers, rolled.st,
                        [oracle EXCEPT !.token_fails = FALSE]))
    IN  IF request.patients = <<>>
        THEN [success |-> FALSE, results |-> <<>>, st |-> st]
        ELSE Apply(IF request.is_rollback
                   THEN Rule21_rollback_rule_conditions_to_patients(request.patients, st, oracle)
                   ELSE [raised |-> FALSE, st |-> st, results |-> <<>>])

(***************************************************************************)
(* Rule 22                                                                 *)
(***************************************************************************)
NoModifier == ""

\* _determine_modifier_from_diagnoses: the first diagnosis that decides
RECURSIVE determine_modifier_from_diagnoses(_, _)
determine_modifier_from_diagnoses(diagnoses, i) ==
    IF i > Len(diagnoses) THEN NoModifier
    ELSE LET diagnosis_code == diagnoses[i].icd10code
         IN  IF startswith(diagnosis_code, "M") /\ endswith(diagnosis_code, "1") THEN "RT"
             ELSE IF startswith(diagnosis_code, "M") /\ endswith(diagnosis_code, "2") THEN "LT"
             ELSE IF startswith(diagnosis_code, "M") /\ endswith(diagnosis_code, "0") THEN "50"
             ELSE determine_modifier_from_diagnoses(diagnoses, i + 1)

\* _handle_paired_procedure_logic: the issues for the first procedure 73560
\* handle_paired_procedure_logic that asks for the same side on the sibling
handle_paired_procedure_logic_same_side(procedures, original_modifier) ==
    LET hits == {i \in DOMAIN procedures : procedures[i].procedurecode = C73560}
    IN  IF hits = {} THEN <<>>
        ELSE <<[service_id |-> procedures[CHOOSE i \in hits : \A j \in hits : i <= j].serviceid,
                procedure_code |-> C73560,
                required_modifier |-> original_modifier,
                replace_diagnosis_with_z0189 |-> TRUE]>>

handle_paired_procedure_logic(procedures, original_modifier) ==
    LET hits == {i \in DOMAIN procedures : procedures[i].procedurecode = C73560}
    IN  IF hits = {} THEN <<>>
        ELSE LET paired_procedure == procedures[CHOOSE i \in hits : \A j \in hits : i <= j]
                 opposite_modifier == IF original_modifier = "LT" THEN "RT" ELSE "LT"
             IN  <<[service_id |-> paired_procedure.serviceid,
                    procedure_code |-> paired_procedure.procedurecode,
                    required_modifier |-> opposite_modifier,
                    replace_diagnosis_with_z0189 |-> TRUE]>>

\* update_service_with_modifier without the special handling of 73030
update_service_with_modifier_plain(st, encounter_id, service_id, modifier, oracle, replace_diagnosis, procedure_code) ==
    PutService(st, "update_service_with_modifier", encounter_id, service_id,
               <<modifier>>,
               IF replace_diagnosis THEN <<Z0189>> ELSE <<>>,
               oracle)

update_service_with_modifier(st, encounter_id, service_id, modifier, oracle, replace_diagnosis, procedure_code) ==
    PutService(st, "update_service_with_modifier", encounter_id, service_id,
               IF procedure_code = C73030 /\ modifier # "59"
               THEN <<modifier, "59">> ELSE <<modifier>>,
               IF replace_diagnosis THEN <<Z0189>> ELSE <<>>,
               oracle)

rollback_service_modifiers(st, encounter_id, service_id, oracle, procedure_code) ==
    PutService(st, "rollback_service_modifiers", encounter_id, service_id,
               <<>>,
               IF procedure_code = C73560 THEN <<EmptyCode>> ELSE <<>>,
               oracle)

\* lines 488-511: after 73564 got its modifier, write the paired procedure
Rule22_apply_paired(acc, procedures, encounter_id, modifier, oracle) ==
    LET Written(issue, w) ==
            [acc EXCEPT
                !.st = w.st,
                !.paired_procedure_found = TRUE,
                !.paired_modifier_applied = @ \/ w.ok,
                !.diagnosis_replaced = IF w.ok THEN issue.replace_diagnosis_with_z0189 ELSE @,
                !.reason = IF w.ok THEN "Modifier and paired modifier applied" ELSE @]
        Write(issue) ==
            Written(issue,
                    update_service_with_modifier(acc.st, encounter_id, issue.service_id,
                        issue.required_modifier, oracle,
                        issue.replace_diagnosis_with_z0189, issue.procedure_code))
        Issues(paired_issues) ==
            IF paired_issues = <<>> THEN acc ELSE Write(paired_issues[1])
    IN  Issues(handle_paired_procedure_logic(procedures, modifier))

\* lines 455-514: the loop over the fetched procedures
RECURSIVE Rule22_apply_loop(_, _, _, _, _, _)
Rule22_apply_loop(procedures, i, encounter_id, add_modifiers, oracle, acc) ==
    LET Required(modifier) ==
            [acc EXCEPT !.target_procedure_found = TRUE,
                        !.diagnosis_code_found = TRUE,
                        !.modifier_required = TRUE,
                        !.modifier_type = modifier]
        Written(modifier, w) ==
            IF ~w.ok THEN [Required(modifier) EXCEPT !.st = w.st]
            ELSE IF procedures[i].procedurecode = C73564
            THEN Rule22_apply_paired(
                    [Required(modifier) EXCEPT !.st = w.st,
                                               !.modifier_applied = TRUE,
                                               !.reason = "Modifier applied successfully"],
                    procedures, encounter_id, modifier, oracle)
            ELSE [Required(modifier) EXCEPT !.st = w.st,
                                            !.modifier_applied = TRUE,
                                            !.reason = "Modifier applied successfully"]
        Step(modifier) ==
            IF ~MatchesTarget(procedures[i].procedurecode) THEN acc
            ELSE IF modifier = NoModifier
            THEN [acc EXCEPT !.target_procedure_found = TRUE,
                             !.reason = "Target procedure found but no matching diagnosis"]
            ELSE IF ~add_modifiers THEN Required(modifier)
            ELSE Written(modifier,
                         update_service_with_modifier(acc.st, encounter_id,
                             procedures[i].serviceid, modifier, oracle, FALSE,
                             procedures[i].procedurecode))
    IN  IF i > Len(procedures) THEN acc
        ELSE Rule22_apply_loop(procedures, i + 1, encounter_id, add_modifiers, oracle,
                               Step(determine_modifier_from_diagnoses(
                                        procedures[i].diagnoses, 1)))

\* one iteration of the patient loop of apply_rule_conditions_to_patients
Rule22_apply_patient(patient, add_modifiers, st, oracle) ==
    LET init == [st |-> st,
                 target_procedure_found |-> FALSE, diagnosis_code_found |-> FALSE,
                 modifier_required |-> FALSE, modifier_applied |-> FALSE,
                 modifier_type |-> NoModifier, paired_procedure_found |-> FALSE,
                 paired_modifier_applied |-> FALSE, diagnosis_replaced |-> FALSE,
                 reason |-> "No target procedures found"]
        Result(encounter_id, acc) ==
            [st |-> acc.st,
             result |-> [patient_id |-> patient.patientid,
                         appointment_id |-> patient.appointmentid,
                         encounter_id |-> encounter_id,
                         target_procedure_found |-> acc.target_procedure_found,
                         diagnosis_code_found |-> acc.diagnosis_code_found,
                         modifier_required |-> acc.modifier_required,
                         modifier_applied |-> acc.modifier_applied,
                         modifier_type |-> acc.modifier_type,
                         paired_procedure_found |-> acc.paired_procedure_found,
                         paired_modifier_applied |-> acc.paired_modifier_applied,
                         diagnosis_replaced |-> acc.diagnosis_replaced,
                         reason |-> acc.reason]]
        Appointment(appointment_data) ==
            IF appointment_data = <<>>
            THEN Result(NoId, [init EXCEPT !.reason = "No appointment data found"])
            ELSE Result(appointment_data[1].encounterid,
                        Rule22_apply_loop(
                            IF appointment_data[1].encounterid # NoId
                            THEN get_encounter_services(st.remote,
                                     appointment_data[1].encounterid, oracle)
                            ELSE <<>>,
                            1, appointment_data[1].encounterid, add_modifiers, oracle, init))
    IN  Appointment(get_appointment_for_patient(st.remote, patient, oracle))

RECURSIVE Rule22_apply_patients(_, _, _, _, _, _)
Rule22_apply_patients(patients, i, add_modifiers, st, oracle, results) ==
    LET Continue(r) ==
            Rule22_apply_patients(patients, i + 1, add_modifiers, r.st, oracle,
                                  Append(results, r.result))
    IN  IF i > Len(patients) THEN [st |-> st, results |-> results]
        ELSE Continue(Rule22_apply_patient(patients[i], add_modifiers, st, oracle))

Rule22_apply_rule_conditions_to_patients(patients, add_modifiers, st, oracle) ==
    LET Return(r) == [raised |-> FALSE, st |-> r.st, results |-> r.results]
    IN  IF patients = <<>> THEN [raised |-> FALSE, st |-> st, results |-> <<>>]
        ELSE IF oracle.token_fails THEN [raised |-> TRUE, st |-> st, results |-> <<>>]
        ELSE Return(Rule22_apply_patients(patients, 1, add_modifiers, st, oracle, <<>>))

\* lines 618-638: the loop over the fetched procedures that clears the modifiers
RECURSIVE Rule22_remove_loop(_, _, _, _, _)
Rule22_remove_loop(procedures, i, encounter_id, oracle, acc) ==
    LET Written(w) ==
            IF ~w.ok THEN [acc EXCEPT !.st = w.st]
            ELSE [acc EXCEPT
                    !.st = w.st,
                    !.modifier_removed = TRUE,
                    !.diagnosis_reverted = @ \/ procedures[i].procedurecode = C73560,
                    !.reason = IF procedures[i].procedurecode = C73560
                               THEN "Modifiers removed and diagnosis reverted"
                               ELSE "Modifiers removed from <procedure_code>"]
    IN  IF i > Len(procedures) THEN acc
        ELSE Rule22_remove_loop(procedures, i + 1, encounter_id, oracle,
                IF ~MatchesTarget(procedures[i].procedurecode) THEN acc
                ELSE Written(rollback_service_modifiers(acc.st, encounter_id,
                                 procedures[i].serviceid, oracle,
                                 procedures[i].procedurecode)))

\* one iteration of the patient loop of rollback_rule_conditions_to_patients
Rule22_rollback_patient(patient, st, oracle) ==
    LET init == [st |-> st, modifier_removed |-> FALSE, diagnosis_reverted |-> FALSE,
                 reason |-> "No eligible services found for rollback"]
        Result(encounter_id, acc) ==
            [st |-> acc.st,
             result |-> [patient_id |-> patient.patientid,
                         appointment_id |-> patient.appointmentid,
                         encounter_id |-> encounter_id,
                         modifier_removed |-> acc.modifier_removed,
                         diagnosis_reverted |-> acc.diagnosis_reverted,
                         reason |-> acc.reason]]
        Remove(encounter_id, procedures) ==
            Result(encounter_id,
                   IF procedures = <<>> THEN [init EXCEPT !.reason = "No procedures found"]
                   ELSE Rule22_remove_loop(procedures, 1, encounter_id, oracle, init))
        Appointment(appointment_data) ==
            IF appointment_data = <<>>
            THEN Result(NoId, [init EXCEPT !.reason = "No appointment data found"])
            ELSE IF appointment_data[1].encounterid = NoId
            THEN Result(NoId, [init EXCEPT !.reason = "No encounter ID found"])
            ELSE Remove(appointment_data[1].encounterid,
                        get_encounter_services(st.remote, appointment_data[1].encounterid,
                                               oracle))
    IN  Appointment(get_appointment_for_patient(st.remote, patient, oracle))

RECURSIVE Rule22_rollback_patients(_, _, _, _, _)
Rule22_rollback_patients(patients, i, st, oracle, results) ==
    LET Continue(r) ==
            Rule22_rollback_patients(patients, i + 1, r.st, oracle, Append(results, r.result))
    IN  IF i > Len(patients) THEN [st |-> st, results |-> results]
        ELSE Continue(Rule22_rollback_patient(patients[i], st, oracle))

Rule22_rollback_rule_conditions_to_patients(patients, st, oracle) ==
    LET Return(r) == [raised |-> FALSE, st |-> r.st, results |-> r.results]
    IN  IF patients = <<>> THEN [raised |-> FALSE, st |-> st, results |-> <<>>]
        ELSE IF oracle.token_fails THEN [raised |-> TRUE, st |-> st, results |-> <<>>]
        ELSE Return(Rule22_rollback_patients(patients, 1, st, oracle, <<>>))

\* lines 829-883 of Rule22.run: one PatientResult per requested patient
Rule22_result_for(patient, patient_results, is_rollback) ==
    LET matching_result == MatchingResult(patient_results, patient.patientid)
        m == matching_result[1]
    IN  IF matching_result = <<>>
        THEN [patientid |-> patient.patientid, appointmentid |-> patient.appointmentid,
              status |-> 4, reason |-> "error: Patient data not found"]
        ELSE IF is_rollback
        THEN [patientid |-> patient.patientid, appointmentid |-> patient.appointmentid,
              status |-> IF Get(m, "modifier_removed", FALSE) THEN 1 ELSE 3,
              reason |-> Get(m, "reason", "Unknown error")]
        ELSE [patientid |-> patient.patientid, appointmentid |-> patient.appointmentid,
              status |-> IF ~Get(m, "target_procedure_found", FALSE) THEN 3
                         ELSE IF ~Get(m, "modifier_required", FALSE) THEN 3
                         ELSE IF Get(m, "modifier_applied", FALSE) THEN 1
                         ELSE 2,
              reason |-> IF ~Get(m, "target_procedure_found", FALSE)
                         THEN "no target procedure codes found"
                         ELSE IF ~Get(m, "modifier_required", FALSE)
                         THEN "no matching diagnosis codes found"
                         ELSE IF Get(m, "modifier_applied", FALSE)
                         THEN "modifier <modifier_type> applied successfully"
                         ELSE "modifier <modifier_type> already exists"]

Rule22_run(request, st0, oracle) ==
    LET st == [remote |-> st0.remote, log |-> <<>>]
        Respond(done) ==
            IF done.raised
            THEN [success |-> FALSE, st |-> st,
                  results |-> ErrorResults(request.patients, "error: <exception>")]
            ELSE IF done.results = <<>>
            THEN [success |-> FALSE, st |-> done.st,
                  results |-> ErrorResults(request.patients, "error: No patient data found")]
            ELSE [success |-> TRUE, st |-> done.st,
                  results |-> [i \in DOMAIN request.patients |->
                                  Rule22_result_for(request.patients[i], done.results,
                                                    request.is_rollback)]]
    IN  IF request.patients = <<>>
        THEN [success |-> FALSE, results |-> <<>>, st |-> st]
        ELSE Respond(IF request.is_rollback
                     THEN Rule22_rollback_rule_conditions_to_patients(
                              request.patients, st, oracle)
                     ELSE Rule22_apply_rule_conditions_to_patients(
                              request.patients, request.add_modifiers, st, oracle))

(***************************************************************************)
(* Remote cases and oracles the engines are run on.  Patient p has         *)
(* appointment 100 + p and, when it has an encounter, encounter 200 + p.   *)
(***************************************************************************)
NoRemote == [appointments |-> <<>>, services |-> <<>>]
NoRun == [ran |-> FALSE]

M1711 == <<"M", "1", "7", "1", "1">>
M1712 == <<"M", "1", "7", "1", "2">>
M170 == <<"M", "1", "7", "0">>
M179 == <<"M", "1", "7", "9">>
S8001 == <<"S", "8", "0", "0", "1">>

Proc(code, sid, icds, mods) ==
    [procedurecode |-> code, serviceid |-> sid,
     diagnoses |-> [i \in DOMAIN icds |-> [icd10code |-> icds[i]]],
     modifiers |-> mods]

OpenAppointment(enc) ==
    [date |-> "past", encounterstatus |-> "OPEN", chargeentrynotrequired |-> FALSE,
     claims |-> <<>>, encounterid |-> enc]

CaseKinds ==
    {"slip_both", "slip_em_only", "slip_injection_only", "closed_25", "claim_without_procedures", "future",
     "knee_rt", "knee_lt", "knee_50", "two_knees", "shoulder", "no_diagnosis",
     "no_target", "no_appointment", "no_encounter"}

CaseAppointment(kind, enc) ==
    CASE kind = "closed_25" -> [OpenAppointment(enc) EXCEPT !.encounterstatus = "CLOSED"]
      [] kind = "claim_without_procedures" -> [OpenAppointment(enc) EXCEPT !.claims = << <<>> >>]
      [] kind = "future" -> [OpenAppointment(enc) EXCEPT !.date = "today_or_future"]
      [] kind = "no_encounter" -> OpenAppointment(NoId)
      [] OTHER -> OpenAppointment(enc)

CaseProcedures(kind) ==
    CASE kind = "slip_both" -> <<Proc(C99213, 1, <<M179>>, <<>>), Proc(C20610, 2, <<M179>>, <<>>)>>
      [] kind = "slip_em_only" -> <<Proc(C99213, 1, <<M179>>, <<>>), Proc(C36415, 2, <<>>, <<>>)>>
      [] kind = "slip_injection_only" ->
            <<Proc(C20610, 1, <<M179>>, <<>>), Proc(C36415, 2, <<>>, <<>>)>>
      [] kind = "closed_25" ->
            <<Proc(C99213, 1, <<M179>>, <<"25">>), Proc(C20610, 2, <<M179>>, <<"25">>)>>
      [] kind = "claim_without_procedures" ->
            <<Proc(C20610, 1, <<M179>>, <<>>), Proc(C99213, 2, <<M179>>, <<"25">>)>>
      [] kind = "future" -> <<Proc(C99213, 1, <<>>, <<>>), Proc(C20610, 2, <<>>, <<>>)>>
      [] kind = "knee_rt" ->
            <<Proc(C73564, 1, <<M1711>>, <<>>), Proc(C73560, 2, <<M1712>>, <<>>)>>
      [] kind = "knee_lt" ->
            <<Proc(C73560, 1, <<M1711>>, <<"RT">>), Proc(C73564, 2, <<S8001, M1712>>, <<>>)>>
      [] kind = "knee_50" ->
            <<Proc(C73564, 1, <<M179, M170>>, <<>>), Proc(C73560, 2, <<M170>>, <<>>)>>
      [] kind = "two_knees" ->
            <<Proc(C73564, 1, <<M1711>>, <<>>), Proc(C73564, 2, <<M1712>>, <<>>),
              Proc(C73560, 3, <<M179>>, <<>>)>>
      [] kind = "shoulder" ->
            <<Proc(C73030, 1, <<S8001, M1711, M1712>>, <<>>),
              Proc(C99213, 2, <<M1712>>, <<>>)>>
      [] kind = "no_diagnosis" ->
            <<Proc(C73564, 1, <<S8001, M179>>, <<"LT">>), Proc(C73560, 2, <<M1711>>, <<>>)>>
      [] kind = "no_target" -> <<Proc(C36415, 1, <<M1711>>, <<>>)>>
      [] OTHER -> <<>>

PatientOf(p) ==
    [patientid |-> p, appointmentid |-> 100 + p]

\* the remote system holding the cases kinds[1], kinds[2], ... of patients 1, 2, ...
RemoteOf(kinds) ==
    LET with_appointment == {p \in DOMAIN kinds : kinds[p] # "no_appointment"}
        with_encounter == {p \in with_appointment : kinds[p] # "no_encounter"}
    IN  [appointments |->
            [a \in {100 + p : p \in with_appointment} |->
                CaseAppointment(kinds[a - 100], a + 100)],
         services |->
            [e \in {200 + p : p \in with_encounter} |-> CaseProcedures(kinds[e - 200])]]

OkOracle ==
    [token_fails |-> FALSE, appointment_fails |-> {}, services_fail |-> {},
     write_fails |-> {}, write_failure |-> "timeout"]

Oracles ==
    {OkOracle,
     [OkOracle EXCEPT !.token_fails = TRUE],
     [OkOracle EXCEPT !.appointment_fails = {101}],
     [OkOracle EXCEPT !.services_fail = {201}],
     [OkOracle EXCEPT !.write_fails = {1}],
     [OkOracle EXCEPT !.write_fails = {2}],
     [OkOracle EXCEPT !.write_fails = {1, 2, 3}, !.write_failure = "claim_created"]}

(***************************************************************************)
(* The orchestrator: unified_rules_endpoint and execute_rules_background.  *)
(***************************************************************************)
BatchSize == 10
ManyPatients == BatchSize + 1
ProjectId == "project-1"

NoTask == <<>>

OrchestratorIdle ==
    /\ pc = "idle"
    /\ unified_request = <<>>
    /\ response = <<>>
    /\ task = NoTask
    /\ tasks_created = 0
    /\ runs_db = <<>>
    /\ execution_results_store = <<>>

\* a patient dict of request.patients; complete says whether it carries every
\* required field of PatientRequest
PatientDict(p, complete) ==
    [patientid |-> p, appointmentid |-> 100 + p, complete |-> complete]

\* PatientRequest(**patient_dict): <<>> when the construction raises
PatientRequest(patient_dict) ==
    IF patient_dict.complete
    THEN <<[patientid |-> patient_dict.patientid, appointmentid |-> patient_dict.appointmentid]>>
    ELSE <<>>

\* the loop of lines 282-295: the dicts that convert, in request order
convert_patients(patients) ==
    LET ok == SelectSeq(patients, LAMBDA d : PatientRequest(d) # <<>>)
    IN  [i \in DOMAIN ok |-> PatientRequest(ok[i])[1]]

PatientLists ==
    {<<>>,
     <<PatientDict(1, TRUE)>>,
     <<PatientDict(1, FALSE)>>,
     <<PatientDict(1, TRUE), PatientDict(2, FALSE)>>,
     <<PatientDict(1, TRUE), PatientDict(2, TRUE), PatientDict(1, TRUE)>>,
     [p \in 1..ManyPatients |-> PatientDict(p, TRUE)]}

OrchestratorKinds ==
    [p \in 1..ManyPatients |->
        CASE p % 4 = 1 -> "slip_both"
          [] p % 4 = 2 -> "knee_rt"
          [] p % 4 = 3 -> "no_appointment"
          [] OTHER -> "closed_25"]

BatchOracles ==
    {OkOracle, [OkOracle EXCEPT !.token_fails = TRUE]}

\* unified_rules_endpoint: the response, the tracker and whether a task is created
\* unified_rules_endpoint without the checks of lines 567-587
unified_rules_endpoint_unchecked(store, req) ==
    [response |-> [success |-> TRUE, results |-> <<>>,
                   total_rules_executed |-> Len(req.rules),
                   rules_with_errors |-> <<>>,
                   execution_id |-> NewExecutionId(store), project_id |-> ProjectId],
     store |-> create_execution(store, Len(req.patients), req.rules),
     create_task |-> TRUE]

unified_rules_endpoint(store, req) ==
    IF req.rules = <<>> \/ req.patients = <<>>
    THEN [response |-> [success |-> FALSE, results |-> <<>>, total_rules_executed |-> 0,
                        rules_with_errors |-> <<>>, execution_id |-> NoId,
                        project_id |-> ProjectId],
          store |-> store, create_task |-> FALSE]
    ELSE [response |-> [success |-> TRUE, results |-> <<>>,
                        total_rules_executed |-> Len(req.rules),
                        rules_with_errors |-> <<>>,
                        execution_id |-> NewExecutionId(store), project_id |-> ProjectId],
          store |-> create_execution(store, Len(req.patients), req.rules),
          create_task |-> TRUE]

\* batch_patients of lines 323-324 (and 394-395)
\* batch_patients with every slice starting at the first patient
batch_patients_from_first(patient_requests, batch_start) ==
    SubSeq(patient_requests, 1,
           IF batch_start + BatchSize < Len(patient_requests)
           THEN batch_start + BatchSize ELSE Len(patient_requests))

batch_patients(patient_requests, batch_start) ==
    LET total_patients == Len(patient_requests)
        batch_end == IF batch_start + BatchSize < total_patients
                     THEN batch_start + BatchSize ELSE total_patients
    IN  SubSeq(patient_requests, batch_start + 1, batch_end)

IndexOfPatient(patient_results, patient_id) ==
    LET hits == {i \in DOMAIN patient_results : patient_results[i].patientid = patient_id}
    IN  IF hits = {} THEN 0 ELSE CHOOSE i \in hits : \A j \in hits : i <= j

\* lines 351-382 (and 422-453): one rule's results merged into patient_results
\* merge_results that keeps a patient's first rule detail only
RECURSIVE merge_results_first_detail(_, _, _, _)
merge_results_first_detail(patient_results, all_rule_results, i, rule_number) ==
    IF i > Len(all_rule_results) THEN patient_results
    ELSE IF IndexOfPatient(patient_results, all_rule_results[i].patientid) # 0
    THEN merge_results_first_detail(patient_results, all_rule_results, i + 1, rule_number)
    ELSE merge_results_first_detail(
            Append(patient_results,
                   [patientid |-> all_rule_results[i].patientid,
                    appointmentid |-> all_rule_results[i].appointmentid,
                    details |-> <<[rule_number |-> str(rule_number),
                                   status |-> all_rule_results[i].status,
                                   reason |-> all_rule_results[i].reason]>>,
                    counts |-> <<0, 0, 0, 0>>]),
            all_rule_results, i + 1, rule_number)

RECURSIVE merge_results(_, _, _, _)
merge_results(patient_results, all_rule_results, i, rule_number) ==
    IF i > Len(all_rule_results) THEN patient_results
    ELSE LET result == all_rule_results[i]
             known == IndexOfPatient(patient_results, result.patientid)
             with_patient ==
                 IF known # 0 THEN patient_results
                 ELSE Append(patient_results,
                             [patientid |-> result.patientid,
                              appointmentid |-> result.appointmentid,
                              details |-> <<>>, counts |-> <<0, 0, 0, 0>>])
             at == IndexOfPatient(with_patient, result.patientid)
             rule_detail == [rule_number |-> str(rule_number), status |-> result.status,
                             reason |-> result.reason]
             counted == IF result.status \in 1..4
                        THEN [with_patient[at].counts EXCEPT ![result.status] = @ + 1]
                        ELSE with_patient[at].counts
         IN  merge_results(
                 [with_patient EXCEPT ![at].details = Append(@, rule_detail),
                                      ![at].counts = counted],
                 all_rule_results, i + 1, rule_number)

\* the handler of lines 463-467 (and the unknown-rule branch 457-461)
\* a handler that marks the execution and lets the exception escape the task
rule_exception_handler_reraising(t, store, execution_id, rule_number) ==
    [task |-> t,
     store |-> set_execution_error(store, execution_id),
     pc |-> "crashed"]

rule_exception_handler(t, store, execution_id, rule_number) ==
    [task |-> [t EXCEPT !.rules_with_errors = Append(@, rule_number),
                        !.failed = @ \cup {t.rule_index},
                        !.rule_index = @ + 1,
                        !.batch_start = 0,
                        !.all_rule_results = <<>>],
     store |-> set_execution_error(store, execution_id),
     pc |-> "rules"]

(***************************************************************************)
(* Spec: one submit and the background task it starts, step by step.  The  *)
(* steps end where the task yields (the sleep after a batch).              *)
(***************************************************************************)
ExecutionId == 1

Init ==
    /\ OrchestratorIdle
    /\ progress_store = EmptyStore
    /\ athena = RemoteOf(OrchestratorKinds)
    /\ t_args = <<>>
    /\ t_last = <<>>
    /\ e_patients = <<>>
    /\ e_last = NoRun

CurrentRule == unified_request.rules[task.rule_index]

InRuleLoop ==
    /\ pc = "rules"
    /\ task.rule_index <= Len(unified_request.rules)

PatientRequestsOf(rule_number) ==
    IF rule_number = 21 THEN task.patient_requests_21 ELSE task.patient_requests_22

\* start_rule is the first statement of a rule's iteration
Started(store) ==
    IF task.batch_start = 0 THEN start_rule(store, ExecutionId, CurrentRule) ELSE store

\* POST /run
Submit ==
    \E rules \in RulesLists, patients \in PatientLists,
       add_modifiers \in BOOLEAN, is_rollback \in BOOLEAN :
        LET req == [rules |-> rules, patients |-> patients,
                    add_modifiers |-> add_modifiers, is_rollback |-> is_rollback]
            out == unified_rules_endpoint(progress_store, req)
        IN  /\ pc = "idle"
            /\ unified_request' = req
            /\ response' = out.response
            /\ progress_store' = out.store
            /\ tasks_created' = IF out.create_task THEN tasks_created + 1 ELSE tasks_created
            /\ pc' = IF out.create_task THEN "queued" ELSE "rejected"
            /\ UNCHANGED <<task, runs_db, execution_results_store, athena,
                           t_args, t_last, e_patients, e_last>>

\* lines 256-305: the task starts, converts the patients or gives up
BackgroundStart ==
    LET converted == convert_patients(unified_request.patients)
    IN  /\ pc = "queued"
        /\ IF unified_request.rules = <<>> \/ unified_request.patients = <<>>
           THEN /\ progress_store' = set_execution_error(progress_store, ExecutionId)
                /\ pc' = "returned"
                /\ UNCHANGED task
           ELSE IF converted = <<>>
           THEN /\ progress_store' =
                      set_execution_error(start_execution(progress_store, ExecutionId),
                                          ExecutionId)
                /\ pc' = "returned"
                /\ UNCHANGED task
           ELSE /\ progress_store' = start_execution(progress_store, ExecutionId)
                /\ pc' = "rules"
                /\ task' = [patient_requests_21 |-> converted,
                            patient_requests_22 |-> converted,
                            patient_results |-> <<>>,
                            rules_with_errors |-> <<>>,
                            rule_index |-> 1,
                            batch_start |-> 0,
                            all_rule_results |-> <<>>,
                            batches |-> <<>>,
                            completed |-> {},
                            failed |-> {}]
        /\ UNCHANGED <<unified_request, response, tasks_created, runs_db,
                       execution_results_store, athena, t_args, t_last, e_patients, e_last>>

\* lines 323-334 (394-405): the rule engine is run on the batch
run_batch(rule_number, patient_requests, batch_start, req, remote, oracle) ==
    LET rule_request == [add_modifiers |-> req.add_modifiers,
                         patients |-> batch_patients(patient_requests, batch_start),
                         is_rollback |-> req.is_rollback]
        st == [remote |-> remote, log |-> <<>>]
    IN  IF rule_number = 21 THEN Rule21_run(rule_request, st, oracle)
        ELSE Rule22_run(rule_request, st, oracle)

\* a loop over the batches that leaves out the last one
more_batches_but_last(batch_start, total_patients) ==
    batch_start + BatchSize < total_patients

\* range(0, total_patients, batch_size) of lines 322 and 393: whether the loop
\* over the batches has another iteration
more_batches(batch_start, total_patients) ==
    batch_start < total_patients

\* lines 322-344 (393-415): one batch of the current rule, up to the sleep
RuleBatch ==
    /\ InRuleLoop
    /\ CurrentRule \in {21, 22}
    /\ more_batches(task.batch_start, Len(PatientRequestsOf(CurrentRule)))
    /\ \E oracle \in BatchOracles :
        \E out \in {run_batch(CurrentRule, PatientRequestsOf(CurrentRule), task.batch_start,
                              unified_request, athena, oracle)} :
            \E store \in {update_rule_progress(
                              Started(progress_store), ExecutionId, CurrentRule,
                              Len(task.all_rule_results) + Len(out.results))} :
                /\ athena' = out.st.remote
                /\ progress_store' = store
                /\ task' = [task EXCEPT
                      !.all_rule_results = @ \o out.results,
                      !.batch_start = @ + BatchSize,
                      !.batches = Append(@,
                          [rule_index |-> task.rule_index,
                           patients |-> batch_patients(PatientRequestsOf(CurrentRule),
                                                       task.batch_start),
                           processed |->
                              store[ExecutionId].rules[str(CurrentRule)].patients_processed])]
    /\ UNCHANGED <<pc, unified_request, response, tasks_created, runs_db,
                   execution_results_store, t_args, t_last, e_patients, e_last>>

\* lines 346-384 (417-455): the rule is completed and its results are merged
RuleComplete ==
    /\ InRuleLoop
    /\ CurrentRule \in {21, 22}
    /\ ~more_batches(task.batch_start, Len(PatientRequestsOf(CurrentRule)))
    /\ progress_store' = complete_rule(Started(progress_store), ExecutionId, CurrentRule)
    /\ task' = [task EXCEPT
          !.patient_results = merge_results(@, task.all_rule_results, 1, CurrentRule),
          !.completed = @ \cup {task.rule_index},
          !.rule_index = @ + 1,
          !.batch_start = 0,
          !.all_rule_results = <<>>]
    /\ UNCHANGED <<pc, unified_request, response, tasks_created, runs_db,
                   execution_results_store, athena, t_args, t_last, e_patients, e_last>>

\* lines 457-461: a rule number that is neither 21 nor 22
RuleUnknown ==
    LET out == rule_exception_handler(task, Started(progress_store), ExecutionId, CurrentRule)
    IN  /\ InRuleLoop
        /\ CurrentRule \notin {21, 22}
        /\ task' = out.task
        /\ progress_store' = out.store
        /\ pc' = out.pc
        /\ UNCHANGED <<unified_request, response, tasks_created, runs_db,
                       execution_results_store, athena, t_args, t_last, e_patients, e_last>>

\* lines 463-467: an exception escapes the body of the current rule's iteration
RuleRaise ==
    LET out == rule_exception_handler(task, Started(progress_store), ExecutionId, CurrentRule)
    IN  /\ InRuleLoop
        /\ CurrentRule \in {21, 22}
        /\ task' = out.task
        /\ progress_store' = out.store
        /\ pc' = out.pc
        /\ UNCHANGED <<unified_request, response, tasks_created, runs_db,
                       execution_results_store, athena, t_args, t_last, e_patients, e_last>>

\* lines 469-480: after the loop
successful_rules == Len(unified_request.rules) - Len(task.rules_with_errors)

Finish ==
    /\ pc = "rules"
    /\ task.rule_index > Len(unified_request.rules)
    /\ progress_store' = complete_execution(progress_store, ExecutionId, successful_rules > 0)
    /\ pc' = "upsert"
    /\ UNCHANGED <<task, unified_request, response, tasks_created, runs_db,
                   execution_results_store, athena, t_args, t_last, e_patients, e_last>>

final_response ==
    [success |-> successful_rules > 0,
     results |-> task.patient_results,
     total_rules_executed |-> Len(unified_request.rules),
     rules_with_errors |-> task.rules_with_errors,
     execution_id |-> ExecutionId,
     project_id |-> ProjectId]

\* lines 483-537: the project document is written and the response is stored
Upsert ==
    /\ pc = "upsert"
    /\ runs_db' = (ProjectId :> final_response)
    /\ execution_results_store' = (ExecutionId :> final_response)
    /\ pc' = "returned"
    /\ UNCHANGED <<task, progress_store, unified_request, response, tasks_created,
                   athena, t_args, t_last, e_patients, e_last>>

\* lines 539-544: the database raises, the outer handler marks the execution
UpsertRaise ==
    /\ pc = "upsert"
    /\ progress_store' = set_execution_error(progress_store, ExecutionId)
    /\ pc' = "returned"
    /\ UNCHANGED <<task, unified_request, response, tasks_created, runs_db,
                   execution_results_store, athena, t_args, t_last, e_patients, e_last>>

Next ==
    \/ Submit
    \/ BackgroundStart
    \/ RuleBatch
    \/ RuleComplete
    \/ RuleUnknown
    \/ RuleRaise
    \/ Finish
    \/ Upsert
    \/ UpsertRaise

Spec == Init /\ [][Next]_vars

\* GET /results/{execution_id}, lines 683-741: 202 while the tracker says pending
\* or running, else the cached response, else the first document of the runs
\* container with this execution_id, else 404
get_execution_results(store, results_store, container, execution_id) ==
    LET progress == get_progress(store, execution_id)
        results == {id \in DOMAIN container : container[id].execution_id = execution_id}
    IN  IF progress.found /\ progress.status \in {RUNNING, PENDING}
        THEN {[status_code |-> 202]}
        ELSE IF execution_id \in DOMAIN results_store
        THEN {[status_code |-> 200, from |-> "memory", body |-> results_store[execution_id]]}
        ELSE IF results # {}
        THEN {[status_code |-> 200, from |-> "database",
               body |-> [success |-> container[id].success,
                         results |-> container[id].results,
                         total_rules_executed |-> container[id].total_rules_executed,
                         rules_with_errors |-> container[id].rules_with_errors,
                         execution_id |-> execution_id,
                         project_id |-> id]] : id \in results}
        ELSE {[status_code |-> 404]}

\* The task yields at the awaits of a batch (the remote calls of rule.run, lines
\* 334 and 405) and at the sleep after it (344, 415); before its first step it
\* is only scheduled.  Another handler runs at these moments and at no other.
InBatch ==
    /\ InRuleLoop
    /\ CurrentRule \in {21, 22}
    /\ more_batches(task.batch_start, Len(PatientRequestsOf(CurrentRule)))

AfterBatch == pc = "rules" /\ task.batch_start > 0

\* the tracker as a handler finds it while the task is inside the coming batch
StoreInBatch == Started(progress_store)

(***************************************************************************)
(* SpecRetry: one remote call of a run, attempt by attempt, against a      *)
(* remote system that answers each request with a status or not at all.    *)
(***************************************************************************)
max_retries == 3
InitialRetryDelay == 5

Answers == {"200", "403", "500", "502", "503", "504", "timeout"}

\* the answers for which raise_for_status raises httpx.HTTPStatusError
HTTPStatusErrors == {"403", "500", "502", "503", "504"}

RemoteCalls ==
    {"get_access_token", "get_appointment_for_patient", "get_encounter_services",
     "update_service_with_modifier_25"}

\* AthenaService.get_access_token, lines 59-117: what one iteration of the loop
\* does with the answer to its request
get_access_token_attempt(answer, attempt) ==
    IF answer = "200" THEN "return"
    ELSE IF answer \in HTTPStatusErrors
    THEN IF answer = "403" THEN "raise"
         ELSE IF answer \in {"504", "502", "503"} /\ attempt < max_retries - 1 THEN "retry"
         ELSE "raise"
    ELSE IF attempt < max_retries - 1 THEN "retry" ELSE "raise"

\* get_appointment_for_patient, get_encounter_services and
\* update_service_with_modifier_25: one request inside a try whose handlers
\* return None, [] or False
rule_call_attempt(fn, answer) ==
    IF answer = "200" THEN "return"
    ELSE CASE fn = "get_appointment_for_patient" -> "return None"
           [] fn = "get_encounter_services" -> "return []"
           [] OTHER -> "return False"

RetryInit ==
    /\ pc = "request"
    /\ \E fn \in RemoteCalls :
          task = [fn |-> fn, attempt |-> 0, retry_delay |-> InitialRetryDelay,
                  answers |-> <<>>, sleeps |-> <<>>, result |-> "none"]
    /\ unified_request = <<>>
    /\ response = <<>>
    /\ tasks_created = 0
    /\ runs_db = <<>>
    /\ execution_results_store = <<>>
    /\ progress_store = EmptyStore
    /\ athena = NoRemote
    /\ t_args = <<>>
    /\ t_last = <<>>
    /\ e_patients = <<>>
    /\ e_last = NoRun

\* lines 68-80 and the handlers 91-117: the request of one attempt and its answer
TokenRequest ==
    /\ pc = "request"
    /\ task.fn = "get_access_token"
    /\ \E answer \in Answers :
          LET outcome == get_access_token_attempt(answer, task.attempt)
          IN  /\ task' = [task EXCEPT !.answers = Append(@, answer),
                                      !.result = IF outcome = "retry" THEN @ ELSE outcome]
              /\ pc' = IF outcome = "retry" THEN "sleep" ELSE "done"

\* lines 103-105 and 112-114: the sleep, the doubled delay, the next iteration
TokenSleep ==
    /\ pc = "sleep"
    /\ task' = [task EXCEPT !.sleeps = Append(@, task.retry_delay),
                            !.retry_delay = @ * 2,
                            !.attempt = @ + 1]
    /\ pc' = "request"

\* the one request of a call of a rule engine
RuleCallRequest ==
    /\ pc = "request"
    /\ task.fn # "get_access_token"
    /\ \E answer \in Answers :
          task' = [task EXCEPT !.answers = Append(@, answer),
                              !.result = rule_call_attempt(task.fn, answer)]
    /\ pc' = "done"

RetryNext ==
    /\ \/ TokenRequest
       \/ TokenSleep
       \/ RuleCallRequest
    /\ UNCHANGED <<unified_request, response, tasks_created, runs_db,
                   execution_results_store, progress_store, athena, t_args, t_last,
                   e_patients, e_last>>

SpecRetry == RetryInit /\ [][RetryNext]_vars

(***************************************************************************)
(* SpecLive: Spec with the scheduling of the task.  The event loop runs a  *)
(* task that asyncio.create_task made (line 601) and resumes it when what  *)
(* it awaits is done: the sleep after a batch, and a remote call, which    *)
(* returns or raises.  The store calls are synchronous.  So each step of   *)
(* the task that can be taken is taken; nobody has to submit.              *)
(***************************************************************************)
TaskStep ==
    \/ BackgroundStart
    \/ RuleUnknown
    \/ RuleRaise
    \/ Finish
    \/ Upsert
    \/ UpsertRaise
    \/ RuleComplete
    \/ RuleBatch

SpecLive == Init /\ [][Next]_vars /\ WF_vars(TaskStep)

(***************************************************************************)
(* SpecEngine: runs of Rule21.run and Rule22.run, apply and rollback, on   *)
(* one or two patients, each run with its own oracle.                      *)
(***************************************************************************)
EngineWorlds ==
    {<<k>> : k \in CaseKinds} \cup
    {<<"slip_both", "knee_rt">>}

EngineInit ==
    /\ \E kinds \in EngineWorlds :
          /\ athena = RemoteOf(kinds)
          /\ e_patients = [p \in DOMAIN kinds |-> PatientOf(p)]
    /\ e_last = NoRun
    /\ progress_store = EmptyStore
    /\ t_args = <<>>
    /\ t_last = <<>>
    /\ OrchestratorIdle

Statuses(results) ==
    [i \in DOMAIN results |-> results[i].status]

\* the record of a run: what was asked, what the remote system did, the outcome,
\* the encounters whose services the run changed;
\* prev holds the outcome of the run before it when both are rollbacks of one rule
RunRecord(rule, request, oracle, out) ==
    [ran |-> TRUE,
     rule |-> rule,
     add_modifiers |-> request.add_modifiers,
     is_rollback |-> request.is_rollback,
     oracle |-> oracle,
     success |-> out.success,
     results |-> out.results,
     log |-> out.st.log,
     changed |-> {e \in DOMAIN athena.services : out.st.remote.services[e] # athena.services[e]},
     prev |-> IF e_last.ran /\ e_last.rule = rule /\ e_last.is_rollback /\ request.is_rollback
              THEN <<[same_request |-> e_last.add_modifiers = request.add_modifiers,
                      same_answers |-> e_last.oracle = oracle,
                      statuses |-> Statuses(e_last.results)]>>
              ELSE <<>>]

EngineRequest(add_modifiers, is_rollback) ==
    [add_modifiers |-> add_modifiers, patients |-> e_patients, is_rollback |-> is_rollback]

EngineRun21 ==
    \E add_modifiers \in BOOLEAN, is_rollback \in BOOLEAN, oracle \in Oracles :
        \E out \in {Rule21_run(EngineRequest(add_modifiers, is_rollback),
                                [remote |-> athena, log |-> <<>>], oracle)} :
            /\ athena' = out.st.remote
            /\ e_last' = RunRecord(21, EngineRequest(add_modifiers, is_rollback), oracle, out)
            /\ UNCHANGED <<e_patients, tracker_vars, orch_vars>>

EngineRun22 ==
    \E add_modifiers \in BOOLEAN, is_rollback \in BOOLEAN, oracle \in Oracles :
        \E out \in {Rule22_run(EngineRequest(add_modifiers, is_rollback),
                                [remote |-> athena, log |-> <<>>], oracle)} :
            /\ athena' = out.st.remote
            /\ e_last' = RunRecord(22, EngineRequest(add_modifiers, is_rollback), oracle, out)
            /\ UNCHANGED <<e_patients, tracker_vars, orch_vars>>

EngineNext ==
    \/ EngineRun21
    \/ EngineRun22

SpecEngine == EngineInit /\ [][EngineNext]_vars

(***************************************************************************)
(* SpecTracker: one execution entry driven through the tracker's mutators  *)
(* in any order and with any arguments.                                    *)
(***************************************************************************)
TrackerTotals == {0, 1, 100}
TrackerProcessed == {0, 1, 50}

TrackerInit ==
    /\ \E total \in TrackerTotals, rules \in RulesLists :
          /\ progress_store = create_execution(EmptyStore, total, rules)
          /\ t_args = [total_patients |-> total, rules |-> rules]
    /\ t_last = [op |-> "create_execution", rule |-> 0, processed |-> 0, calls |-> 0]
    /\ athena = NoRemote
    /\ e_patients = <<>>
    /\ e_last = NoRun
    /\ OrchestratorIdle

TStartExecution ==
    /\ progress_store' = start_execution(progress_store, 1)
    /\ t_last' = [op |-> "start_execution", rule |-> 0, processed |-> 0, calls |-> t_last.calls + 1]
    /\ UNCHANGED t_args

TStartRule ==
    \E r \in RuleNums :
        /\ progress_store' = start_rule(progress_store, 1, r)
        /\ t_last' = [op |-> "start_rule", rule |-> r, processed |-> 0, calls |-> t_last.calls + 1]
        /\ UNCHANGED t_args

TUpdateRuleProgress ==
    \E r \in RuleNums, k \in TrackerProcessed :
        /\ progress_store' = update_rule_progress(progress_store, 1, r, k)
        /\ t_last' = [op |-> "update_rule_progress", rule |-> r, processed |-> k, calls |-> t_last.calls + 1]
        /\ UNCHANGED t_args

TCompleteRule ==
    \E r \in RuleNums :
        /\ progress_store' = complete_rule(progress_store, 1, r)
        /\ t_last' = [op |-> "complete_rule", rule |-> r, processed |-> 0, calls |-> t_last.calls + 1]
        /\ UNCHANGED t_args

TCompleteExecution ==
    \E success \in BOOLEAN :
        /\ progress_store' = complete_execution(progress_store, 1, success)
        /\ t_last' = [op |-> "complete_execution", rule |-> 0, processed |-> 0, calls |-> t_last.calls + 1]
        /\ UNCHANGED t_args

TSetExecutionError ==
    /\ progress_store' = set_execution_error(progress_store, 1)
    /\ t_last' = [op |-> "set_execution_error", rule |-> 0, processed |-> 0, calls |-> t_last.calls + 1]
    /\ UNCHANGED t_args

TrackerNext ==
    /\ t_last.calls < MaxCalls
    /\ UNCHANGED <<engine_vars, orch_vars>>
    /\ \/ TStartExecution
       \/ TStartRule
       \/ TUpdateRuleProgress
       \/ TCompleteRule
       \/ TCompleteExecution
       \/ TSetExecutionError

SpecTracker == TrackerInit /\ [][TrackerNext]_vars

(***************************************************************************)
(* The tracker on the event loop: the orchestrator task calls the          *)
(* mutators, the handlers of GET /progress call get_progress.  The         *)
(* mutators that write a rule entry and then the aggregate are taken in    *)
(* two steps; task holds the call that is under way, response the value    *)
(* each reader got.                                                        *)
(***************************************************************************)
MaxSnapshotCalls == 2

Readers == {1, 2}

NotRunning == <<>>

\* a handler that can start while a call of the tracker is under way
handler_may_run_preemptively(running) ==
    TRUE

\* the tracker's methods are plain functions without await: a handler of the
\* event loop starts only when no call of the tracker is under way
handler_may_run(running) ==
    running = NotRunning

\* update_rule_progress, lines 120-137: the rule entry is written
update_rule_entry(store, execution_id, rule_number, patients_processed) ==
    LET rule_key == str(rule_number)
        total_patients == store[execution_id].rules[rule_key].total_patients
    IN  [store EXCEPT
            ![execution_id].rules[rule_key].patients_processed = patients_processed,
            ![execution_id].rules[rule_key].percentage =
                IF total_patients > 0
                THEN RatMin(Rat(patients_processed * 100, total_patients), Hundred)
                ELSE Zero]

\* complete_rule, lines 145-154: the rule entry and rules_completed are written
complete_rule_entry(store, execution_id, rule_number) ==
    [store EXCEPT
        ![execution_id].rules[str(rule_number)].status = COMPLETED,
        ![execution_id].rules[str(rule_number)].patients_processed =
            store[execution_id].rules[str(rule_number)].total_patients,
        ![execution_id].rules[str(rule_number)].percentage = Hundred,
        ![execution_id].overall.rules_completed = @ + 1]

SnapshotRules == {<<21>>, <<22>>, <<21, 22>>, <<22, 21>>}

SnapshotInit ==
    /\ \E total \in TrackerTotals \ {0}, rules \in SnapshotRules :
          /\ progress_store = create_execution(EmptyStore, total, rules)
          /\ t_args = [total_patients |-> total, rules |-> rules]
          /\ task = [running |-> NotRunning,
                     committed |-> create_execution(EmptyStore, total, rules),
                     expected |-> create_execution(EmptyStore, total, rules)]
    /\ t_last = [op |-> "create_execution", rule |-> 0, processed |-> 0, calls |-> 0]
    /\ response = [r \in Readers |-> <<>>]
    /\ pc = "idle"
    /\ unified_request = <<>>
    /\ tasks_created = 0
    /\ runs_db = <<>>
    /\ execution_results_store = <<>>
    /\ athena = NoRemote
    /\ e_patients = <<>>
    /\ e_last = NoRun

\* a call that writes the store in one step
SnapWhole(op, store) ==
    /\ task.running = NotRunning
    /\ t_last.calls < MaxSnapshotCalls
    /\ progress_store' = store
    /\ task' = [task EXCEPT !.committed = store, !.expected = store]
    /\ t_last' = [op |-> op, rule |-> 0, processed |-> 0, calls |-> t_last.calls + 1]

SnapStartExecution == SnapWhole("start_execution", start_execution(progress_store, 1))

SnapStartRule ==
    \E r \in {21, 22} : SnapWhole("start_rule", start_rule(progress_store, 1, r))

SnapCompleteExecution ==
    \E success \in BOOLEAN :
        SnapWhole("complete_execution", complete_execution(progress_store, 1, success))

SnapSetExecutionError ==
    SnapWhole("set_execution_error", set_execution_error(progress_store, 1))

\* update_rule_progress up to line 137
SnapUpdateRuleEntry ==
    \E r \in {21, 22}, k \in TrackerProcessed :
        /\ task.running = NotRunning
        /\ t_last.calls < MaxSnapshotCalls
        /\ str(r) \in DOMAIN progress_store[1].rules
        /\ progress_store' = update_rule_entry(progress_store, 1, r, k)
        /\ task' = [task EXCEPT !.running = <<"update_rule_progress">>,
                                !.expected = update_rule_progress(progress_store, 1, r, k)]
        /\ t_last' = [op |-> "update_rule_progress", rule |-> r, processed |-> k,
                      calls |-> t_last.calls + 1]

\* complete_rule up to line 154
SnapCompleteRuleEntry ==
    \E r \in {21, 22} :
        /\ task.running = NotRunning
        /\ t_last.calls < MaxSnapshotCalls
        /\ str(r) \in DOMAIN progress_store[1].rules
        /\ progress_store' = complete_rule_entry(progress_store, 1, r)
        /\ task' = [task EXCEPT !.running = <<"complete_rule">>,
                                !.expected = complete_rule(progress_store, 1, r)]
        /\ t_last' = [op |-> "complete_rule", rule |-> r, processed |-> 0,
                      calls |-> t_last.calls + 1]

\* lines 140 and 155: _update_overall_progress ends the call
SnapUpdateOverall ==
    /\ task.running # NotRunning
    /\ progress_store' = update_overall_progress(progress_store, 1)
    /\ task' = [task EXCEPT !.running = NotRunning,
                            !.committed = update_overall_progress(progress_store, 1)]
    /\ UNCHANGED t_last

\* GET /progress/{execution_id}: get_progress and the copy into ProgressResponse
SnapRead ==
    \E r \in Readers :
        /\ handler_may_run(task.running)
        /\ response' = [response EXCEPT ![r] =
                            <<[snapshot |-> get_progress(progress_store, 1),
                               committed |-> get_progress(task.committed, 1)]>>]
        /\ UNCHANGED <<progress_store, task, t_last>>

SnapshotNext ==
    /\ \/ SnapStartExecution /\ UNCHANGED response
       \/ SnapStartRule /\ UNCHANGED response
       \/ SnapCompleteExecution /\ UNCHANGED response
       \/ SnapSetExecutionError /\ UNCHANGED response
       \/ SnapUpdateRuleEntry /\ UNCHANGED response
       \/ SnapCompleteRuleEntry /\ UNCHANGED response
       \/ SnapUpdateOverall /\ UNCHANGED response
       \/ SnapRead
    /\ UNCHANGED <<t_args, pc, unified_request, tasks_created, runs_db,
                   execution_results_store, athena, e_patients, e_last>>

SpecSnapshot == SnapshotInit /\ [][SnapshotNext]_vars

(***************************************************************************)
(* The upsert of the project document (rules.py 483-523), statement by     *)
(* statement, by two orchestrator tasks of different processes that write   *)
(* the same project id, next to update_rollback_status_in_db (185-198).    *)
(* runs_db is the runs container, pc the position of each writer, task the *)
(* local variables of the writers and the clock.                           *)
(***************************************************************************)
MaxUpdates == 1

Writers == {1, 2}

OldCreatedAt == 0

\* lines 492-502: the document of the run of writer w
project_doc(w, created_at) ==
    [id |-> ProjectId, execution_id |-> w, results |-> <<"results of run", w>>,
     created_at |-> created_at, rollback_status |-> FALSE]

\* the created_at of a run that forgets the one of the existing document
existing_created_at_fresh(existing_item, now) ==
    now

\* lines 509 and 521: existing_item.get("created_at", now)
existing_created_at(existing_item, now) ==
    Get(existing_item, "created_at", now)

UpsertContainers ==
    {<<>>, (ProjectId :> [project_doc(0, OldCreatedAt) EXCEPT !.rollback_status = TRUE])}

UpsertInit ==
    /\ \E container \in UpsertContainers : runs_db = container
    /\ pc = [w \in Writers |-> "read"]
    /\ task = [clock |-> 1, updates |-> 0, update_read |-> <<>>,
               locals |-> [w \in Writers |->
                             [created_at |-> OldCreatedAt, now |-> OldCreatedAt,
                              existing_item |-> <<>>, path |-> <<>>]]]
    /\ unified_request = <<>>
    /\ response = <<>>
    /\ tasks_created = 0
    /\ execution_results_store = <<>>
    /\ progress_store = EmptyStore
    /\ athena = NoRemote
    /\ t_args = <<>>
    /\ t_last = <<>>
    /\ e_patients = <<>>
    /\ e_last = NoRun

Exists == ProjectId \in DOMAIN runs_db

UpsertStep(w, to, locals) ==
    /\ pc' = [pc EXCEPT ![w] = to]
    /\ task' = [task EXCEPT !.locals[w] = [locals EXCEPT !.path = Append(@, pc[w])]]

\* line 507: read_item; it raises when the document is absent or the call fails
UReadItem(w) ==
    /\ pc[w] = "read"
    /\ \E fails \in BOOLEAN :
          IF Exists /\ ~fails
          THEN UpsertStep(w, "replace",
                   [task.locals[w] EXCEPT
                       !.existing_item = runs_db[ProjectId],
                       !.created_at = existing_created_at(runs_db[ProjectId], task.clock)])
          ELSE UpsertStep(w, "create", task.locals[w])
    /\ UNCHANGED runs_db

\* line 510: replace_item; a failure, with the write applied or not, goes to
\* the handler of line 512
UReplaceItem(w) ==
    /\ pc[w] = "replace"
    /\ \E fails \in BOOLEAN, applied \in BOOLEAN :
          /\ ~fails => applied
          /\ runs_db' = IF applied
                        THEN (ProjectId :> project_doc(w, task.locals[w].created_at))
                        ELSE runs_db
          /\ UpsertStep(w, IF fails THEN "create" ELSE "done", task.locals[w])

\* lines 515-516: a new created_at, then create_item; the conflict goes to
\* line 518, any other failure leaves the upsert
UCreateItem(w) ==
    /\ pc[w] = "create"
    /\ \E fails \in BOOLEAN :
          /\ runs_db' = IF ~Exists /\ ~fails
                        THEN (ProjectId :> project_doc(w, task.clock))
                        ELSE runs_db
          /\ pc' = [pc EXCEPT ![w] = IF Exists THEN "conflict_read"
                                     ELSE IF fails THEN "raised" ELSE "done"]
          /\ task' = [task EXCEPT
                        !.clock = @ + 1,
                        !.locals[w] = [@ EXCEPT !.created_at = task.clock,
                                                !.now = task.clock,
                                                !.path = Append(@, "create")]]

\* lines 520-521: the document is read again
UConflictReadItem(w) ==
    /\ pc[w] = "conflict_read"
    /\ \E fails \in BOOLEAN :
          IF Exists /\ ~fails
          THEN UpsertStep(w, "conflict_replace",
                   [task.locals[w] EXCEPT
                       !.existing_item = runs_db[ProjectId],
                       !.created_at = existing_created_at(runs_db[ProjectId], task.clock)])
          ELSE UpsertStep(w, "raised", task.locals[w])
    /\ UNCHANGED runs_db

\* line 522: replace_item after the conflict
UConflictReplaceItem(w) ==
    /\ pc[w] = "conflict_replace"
    /\ \E fails \in BOOLEAN :
          /\ runs_db' = IF fails THEN runs_db
                        ELSE (ProjectId :> project_doc(w, task.locals[w].created_at))
          /\ UpsertStep(w, IF fails THEN "raised" ELSE "done", task.locals[w])

\* update_rollback_status_in_db, line 185: the document is read
URollbackRead ==
    /\ Exists
    /\ task.update_read = <<>>
    /\ task.updates < MaxUpdates
    /\ task' = [task EXCEPT !.update_read = <<runs_db[ProjectId]>>, !.updates = @ + 1]
    /\ UNCHANGED <<pc, runs_db>>

\* update_rollback_status_in_db, lines 191-198: the document that was read is
\* written back with its rows marked
URollbackReplace ==
    /\ task.update_read # <<>>
    /\ runs_db' = (ProjectId :> [task.update_read[1] EXCEPT !.rollback_status = TRUE])
    /\ task' = [task EXCEPT !.update_read = <<>>]
    /\ UNCHANGED pc

UpsertNext ==
    /\ \/ \E w \in Writers : UReadItem(w)
       \/ \E w \in Writers : UReplaceItem(w)
       \/ \E w \in Writers : UCreateItem(w)
       \/ \E w \in Writers : UConflictReadItem(w)
       \/ \E w \in Writers : UConflictReplaceItem(w)
       \/ URollbackRead
       \/ URollbackReplace
    /\ UNCHANGED <<unified_request, response, tasks_created, execution_results_store,
                   progress_store, athena, t_args, t_last, e_patients, e_last>>

SpecUpsert == UpsertInit /\ [][UpsertNext]_vars

(***************************************************************************)
(* Rollbacks over persisted runs: the rollback endpoints of rules 21 and   *)
(* 22 with update_rollback_status_in_db, and a run of the unified endpoint *)
(* with is_rollback = TRUE.  runs_db is the runs container, response the   *)
(* record of the last rollback, task the clock.                            *)
(***************************************************************************)
MaxRollbacks == 2

NotRollbacked == "None"

NoProject == ""

NewProjectId == "project-new"

\* a persisted PatientResult row: model_dump() of lines 486-490
PersistedRow(patient_result) ==
    [patientid |-> patient_result.patientid,
     appointmentid |-> patient_result.appointmentid,
     details |-> patient_result.details,
     rollback_status |-> NotRollbacked,
     rollbacked_at |-> 0]

serializable_results(results_list) ==
    [i \in DOMAIN results_list |-> PersistedRow(results_list[i])]

\* lines 188-194 (and 220-226): the rows whose key is one of patient_keys
mark_rows(results, patient_keys, rollbacked_at) ==
    [i \in DOMAIN results |->
        IF <<results[i].patientid, results[i].appointmentid>> \in patient_keys
        THEN [results[i] EXCEPT !.rollback_status = "rollbacked",
                                !.rollbacked_at = rollbacked_at]
        ELSE results[i]]

\* update_rollback_status_in_db: the container after the call
update_rollback_status_in_db(container, project_id, patients, rollbacked_at) ==
    LET patient_keys ==
            {<<patients[i].patientid, patients[i].appointmentid>> : i \in
                {j \in DOMAIN patients :
                    patients[j].patientid # NoId /\ patients[j].appointmentid # NoId}}
        Updated(d) == \E i \in DOMAIN container[d].results :
                            <<container[d].results[i].patientid,
                              container[d].results[i].appointmentid>> \in patient_keys
        Replaced(d) ==
            [container[d] EXCEPT
                !.results = mark_rows(@, patient_keys, rollbacked_at),
                !.updated_at = rollbacked_at]
    IN  IF patient_keys = {} THEN container
        ELSE IF project_id # NoProject
        THEN IF project_id \in DOMAIN container /\ Updated(project_id)
             THEN [container EXCEPT ![project_id] = Replaced(project_id)]
             ELSE container
        ELSE [d \in DOMAIN container |->
                IF Len(container[d].results) > 0 /\ Updated(d)
                THEN Replaced(d) ELSE container[d]]

\* lines 930-937 (973-980): the patients whose rollback has status 1
patients_for_db(results) ==
    LET ok == SelectSeq(results, LAMBDA r : r.status = 1)
    IN  [i \in DOMAIN ok |-> [patientid |-> ok[i].patientid,
                               appointmentid |-> ok[i].appointmentid]]

\* rule21_rollback_endpoint / rule22_rollback_endpoint
rollback_endpoint(rule_number, request, project_id, container, remote, oracle, now) ==
    LET Answer(out) ==
            [remote |-> out.st.remote,
             results |-> out.results,
             container |->
                IF out.success /\ out.results # <<>> /\ patients_for_db(out.results) # <<>>
                THEN update_rollback_status_in_db(container, project_id,
                                                  patients_for_db(out.results), now)
                ELSE container]
        rollback_request == [request EXCEPT !.is_rollback = TRUE]
        st == [remote |-> remote, log |-> <<>>]
    IN  Answer(IF rule_number = 21 THEN Rule21_run(rollback_request, st, oracle)
               ELSE Rule22_run(rollback_request, st, oracle))

\* the rule loop of execute_rules_background over one batch of patients
RECURSIVE run_rules(_, _, _, _, _, _)
run_rules(req, j, patient_requests, remote, oracle, patient_results) ==
    LET Merge(out) ==
            run_rules(req, j + 1, patient_requests, out.st.remote, oracle,
                      merge_results(patient_results, out.results, 1, req.rules[j]))
    IN  IF j > Len(req.rules) THEN [remote |-> remote, patient_results |-> patient_results]
        ELSE Merge(run_batch(req.rules[j], patient_requests, 0, req, remote, oracle))

\* lines 492-523: the project document of the run is written
upsert_project(container, project_id, results_list, now) ==
    LET doc == [id |-> project_id,
                results |-> serializable_results(results_list),
                updated_at |-> now,
                created_at |-> IF project_id \in DOMAIN container
                               THEN container[project_id].created_at ELSE now]
    IN  [d \in DOMAIN container \cup {project_id} |->
            IF d = project_id THEN doc ELSE container[d]]

RollbackKinds == <<"knee_rt", "closed_25", "no_target">>

RollbackPatients ==
    {<<PatientOf(1)>>, <<PatientOf(2)>>, <<PatientOf(3), PatientOf(2), PatientOf(1)>>}

PersistedRun(id, patients) ==
    [id |-> id, created_at |-> 0, updated_at |-> 0,
     results |-> [i \in DOMAIN patients |->
                    PersistedRow([patientid |-> patients[i].patientid,
                                  appointmentid |-> patients[i].appointmentid,
                                  details |-> <<>>])]]

PersistedRuns ==
    [d \in {ProjectId, "project-2", "project-empty"} |->
        IF d = ProjectId THEN PersistedRun(d, <<PatientOf(1), PatientOf(2)>>)
        ELSE IF d = "project-2" THEN PersistedRun(d, <<PatientOf(3), PatientOf(1)>>)
        ELSE PersistedRun(d, <<>>)]

RollbackInit ==
    /\ athena = RemoteOf(RollbackKinds)
    /\ runs_db = PersistedRuns
    /\ response = <<>>
    /\ task = [clock |-> 1]
    /\ pc = "idle"
    /\ unified_request = <<>>
    /\ tasks_created = 0
    /\ execution_results_store = <<>>
    /\ progress_store = EmptyStore
    /\ t_args = <<>>
    /\ t_last = <<>>
    /\ e_patients = <<>>
    /\ e_last = NoRun

RollbackRecord(kind, project_id, outcomes) ==
    [kind |-> kind, project_id |-> project_id, now |-> task.clock,
     outcomes |-> outcomes]

\* POST /rule21/rollback and POST /rule22/rollback
RollbackEndpoint ==
    /\ task.clock <= MaxRollbacks
    /\ \E rule_number \in {21, 22}, patients \in RollbackPatients,
          add_modifiers \in BOOLEAN, oracle \in BatchOracles,
          project_id \in {NoProject, ProjectId, "project-2", "project-unknown"} :
          \E out \in {rollback_endpoint(
                          rule_number,
                          [add_modifiers |-> add_modifiers, patients |-> patients,
                           is_rollback |-> FALSE],
                          project_id, runs_db, athena, oracle, task.clock)} :
              /\ athena' = out.remote
              /\ runs_db' = out.container
              /\ response' = RollbackRecord("endpoint", project_id,
                      {[patientid |-> out.results[i].patientid,
                        appointmentid |-> out.results[i].appointmentid,
                        status |-> out.results[i].status] : i \in DOMAIN out.results})
    /\ task' = [task EXCEPT !.clock = @ + 1]
    /\ UNCHANGED <<pc, unified_request, tasks_created, execution_results_store,
                   progress_store, t_args, t_last, e_patients, e_last>>

\* the statuses of a merged patient result, one outcome per rule detail
OutcomesOf(patient_results) ==
    LET Details(k) == patient_results[k].details
        pairs == {<<k, n>> \in (DOMAIN patient_results) \X (1..(MaxRules + 1)) :
                    n \in DOMAIN Details(k)}
    IN  {[patientid |-> patient_results[kn[1]].patientid,
          appointmentid |-> patient_results[kn[1]].appointmentid,
          status |-> Details(kn[1])[kn[2]].status] : kn \in pairs}

\* POST /run with is_rollback = TRUE, from the submit to the upsert
UnifiedRollback ==
    /\ task.clock <= MaxRollbacks
    /\ \E rules \in {<<21>>, <<22>>, <<21, 22>>}, patients \in RollbackPatients,
          add_modifiers \in BOOLEAN, oracle \in BatchOracles,
          project_id \in {NoProject, ProjectId} :
          \E out \in {run_rules([rules |-> rules, add_modifiers |-> add_modifiers,
                                  is_rollback |-> TRUE],
                                 1, patients, athena, oracle, <<>>)} :
              /\ athena' = out.remote
              /\ runs_db' = upsert_project(
                                runs_db,
                                IF project_id = NoProject THEN NewProjectId ELSE project_id,
                                out.patient_results, task.clock)
              /\ response' = RollbackRecord("unified", project_id,
                                            OutcomesOf(out.patient_results))
    /\ task' = [task EXCEPT !.clock = @ + 1]
    /\ UNCHANGED <<pc, unified_request, tasks_created, execution_results_store,
                   progress_store, t_args, t_last, e_patients, e_last>>

RollbackNext ==
    \/ RollbackEndpoint
    \/ UnifiedRollback

SpecRollback == RollbackInit /\ [][RollbackNext]_vars

(***************************************************************************)
(* Properties of the tracker (SpecTracker).                                *)
(***************************************************************************)
RECURSIVE SumOver(_, _, _)
SumOver(entries, keys, field) ==
    IF keys = {} THEN Zero
    ELSE LET k == CHOOSE x \in keys : TRUE
         IN  RatAdd(IF field = "percentage" THEN entries[k].percentage
                    ELSE Rat(entries[k].patients_processed, 1),
                    SumOver(entries, keys \ {k}, field))

AfterUpdateOfTrackedRule ==
    /\ t_last # <<>>
    /\ t_last.op = "update_rule_progress"
    /\ t_args.total_patients > 0
    /\ t_last.rule \in Range(t_args.rules)

\* C4: after create_execution(T, R) with T > 0, a call update_rule_progress(r, k)
\* for r in R leaves rule r's percentage at min(100 * k / T, 100), the overall
\* percentage at the sum of the tracked rules' percentages divided by len(R),
\* and overall.patients_processed at the sum of the rules' patients_processed.
C4_PercentagesAfterUpdate ==
    AfterUpdateOfTrackedRule =>
        LET entry == progress_store[1]
            keys == DOMAIN entry.rules
        IN  /\ entry.rules[str(t_last.rule)].patients_processed = t_last.processed
            /\ entry.rules[str(t_last.rule)].percentage =
                  RatMin(Rat(100 * t_last.processed, t_args.total_patients), Hundred)
            /\ entry.overall.percentage =
                  RatDivInt(SumOver(entry.rules, keys, "percentage"), Len(t_args.rules))
            /\ Rat(entry.overall.patients_processed, 1) =
                  SumOver(entry.rules, keys, "patients_processed")

\* the scenario of C4: T = 100, R = [21, 22], k = 50 gives 50.0, 25.0 and 50
C4_Witness ==
    /\ AfterUpdateOfTrackedRule
    /\ t_args = [total_patients |-> 100, rules |-> <<21, 22>>]
    /\ t_last.rule = 21 /\ t_last.processed = 50 /\ t_last.calls = 1
    /\ progress_store[1].rules["21"].percentage = Rat(50, 1)
    /\ progress_store[1].overall.percentage = Rat(25, 1)
    /\ progress_store[1].overall.patients_processed = 50

(***************************************************************************)
(* Properties of a submitted run (Spec).                                   *)
(***************************************************************************)
\* the patient cases of the request: the dicts that convert to a PatientRequest
PatientCases == SelectSeq(unified_request.patients, LAMBDA d : d.complete)

PatientCasesAsRequests ==
    [i \in DOMAIN PatientCases |->
        [patientid |-> PatientCases[i].patientid,
         appointmentid |-> PatientCases[i].appointmentid]]

TaskRan == pc \in {"rules", "upsert", "returned"} /\ task # NoTask

RunEnded == pc = "returned"

\* the results of the run: the merged per-patient results
RunResults == IF task = NoTask THEN <<>> ELSE task.patient_results

\* number of rule outcomes the results hold for a patient id and a rule
Outcomes(patient_id, rule_number) ==
    LET at == IndexOfPatient(RunResults, patient_id)
    IN  IF at = 0 THEN 0
        ELSE Cardinality({k \in DOMAIN RunResults[at].details :
                            RunResults[at].details[k].rule_number = str(rule_number)})

Occurrences(seq, x) == Cardinality({i \in DOMAIN seq : seq[i] = x})

PatientIds == [i \in DOMAIN PatientCases |-> PatientCases[i].patientid]

CompletedRules ==
    IF task = NoTask THEN <<>>
    ELSE [j \in DOMAIN unified_request.rules |->
            IF j \in task.completed THEN unified_request.rules[j] ELSE 0]

ReadProcessed(store, rule_key) ==
    IF get_progress(store, ExecutionId).found
    THEN get_progress(store, ExecutionId)[rule_key].patients_processed
    ELSE 0

\* C2 as stated: from one state of the run to the next, the patients_processed
\* that get_progress returns for rule 21 and for rule 22 never decreases.
C2_ProcessedNeverDecreases ==
    [][/\ ReadProcessed(progress_store', "rule_21") >= ReadProcessed(progress_store, "rule_21")
       /\ ReadProcessed(progress_store', "rule_22") >= ReadProcessed(progress_store, "rule_22")]_vars

BatchesOf(j) == SelectSeq(task.batches, LAMBDA b : b.rule_index = j)

RECURSIVE Flatten(_)
Flatten(batches) ==
    IF batches = <<>> THEN <<>> ELSE Head(batches).patients \o Flatten(Tail(batches))

IsPrefix(a, b) == Len(a) <= Len(b) /\ SubSeq(b, 1, Len(a)) = a

\* C3: for each rule the batches are consecutive slices of at most 10 of the
\* rule's patient list (the patient cases), patients_processed after a batch
\* is the number of patients in the batches so far, and once the rule completed
\* the batches hold every patient exactly once, so the increments sum to the
\* number of patients.
C3_BatchesPartitionPatients ==
    TaskRan =>
        \A j \in DOMAIN unified_request.rules :
            /\ IsPrefix(Flatten(BatchesOf(j)), PatientCasesAsRequests)
            /\ \A k \in DOMAIN BatchesOf(j) :
                  /\ Len(BatchesOf(j)[k].patients) \in 1..BatchSize
                  /\ BatchesOf(j)[k].processed = Len(Flatten(SubSeq(BatchesOf(j), 1, k)))
            /\ j \in task.completed =>
                  /\ Flatten(BatchesOf(j)) = PatientCasesAsRequests
                  /\ BatchesOf(j)[Len(BatchesOf(j))].processed = Len(PatientCases)

\* eleven patients under a completed rule: two batches, processed 10 then 11
C3_Witness ==
    /\ TaskRan
    /\ 1 \in task.completed
    /\ Len(BatchesOf(1)) = 2
    /\ BatchesOf(1)[1].processed = BatchSize
    /\ BatchesOf(1)[2].processed = BatchSize + 1
    /\ Len(unified_request.patients) = BatchSize + 1

ExecutionStatus(store) ==
    IF ExecutionId \in DOMAIN store THEN store[ExecutionId].status ELSE PENDING

\* C5 as stated: once the status of the execution is Completed or Error, no
\* later step of the run changes it.
C5_TerminalStatus ==
    [][ExecutionStatus(progress_store) \in {COMPLETED, ERROR}
          => ExecutionStatus(progress_store') = ExecutionStatus(progress_store)]_vars

\* C6: a rule that raises or is unknown is recorded in rules_with_errors, the
\* loop goes on with the next rule, every rule that does not fail is executed
\* over all patient cases, and the task ends by returning, never by a failure
\* that escapes it.
C6_RuleFailureIsContained ==
    /\ pc \in {"idle", "rejected", "queued", "rules", "upsert", "returned"}
    /\ TaskRan =>
        /\ \A j \in task.failed : unified_request.rules[j] \in Range(task.rules_with_errors)
        /\ Len(task.rules_with_errors) = Cardinality(task.failed)
        /\ task.failed \cup task.completed = 1..(task.rule_index - 1)
        /\ task.failed \cap task.completed = {}
        /\ \A j \in task.completed : Flatten(BatchesOf(j)) = PatientCasesAsRequests
        /\ pc \in {"upsert", "returned"} => task.rule_index = Len(unified_request.rules) + 1

\* a rule failed and a later rule was still completed, and the run was stored
C6_Witness ==
    /\ RunEnded /\ task # NoTask
    /\ \E j \in task.failed : \E k \in task.completed :
          j < k /\ unified_request.rules[j] \in {21, 22}
    /\ runs_db # <<>>

Rejected ==
    pc # "idle" /\ (unified_request.rules = <<>> \/ unified_request.patients = <<>>)

\* C7: a submit with no rules or no patients is answered with success = FALSE
\* and no execution id; no tracker entry is created, no background task is
\* started and nothing is written to the result store.
C7_EmptySubmitRejected ==
    Rejected =>
        /\ pc = "rejected"
        /\ response.success = FALSE
        /\ response.execution_id = NoId
        /\ progress_store = EmptyStore
        /\ tasks_created = 0
        /\ task = NoTask
        /\ runs_db = <<>>
        /\ execution_results_store = <<>>

\* rules given, patients empty
C7_Witness ==
    /\ Rejected
    /\ unified_request.rules = <<21, 22>>
    /\ unified_request.patients = <<>>
    /\ response.success = FALSE

(***************************************************************************)
(* Properties of the rule engines (SpecEngine).                            *)
(***************************************************************************)
ApplyWrites == {"update_service_with_modifier_25", "update_service_with_modifier"}

\* C8 as stated: a run with is_rollback = TRUE issues no apply-path write.
C8_RollbackIssuesNoApplyWrite ==
    (e_last.ran /\ e_last.is_rollback) =>
        \A k \in DOMAIN e_last.log : e_last.log[k].fn \notin ApplyWrites

\* the procedure of an encounter that has the service id, and the first 73560
ServiceOf(encounter_id, service_id) ==
    LET procedures == athena.services[encounter_id]
    IN  procedures[CHOOSE i \in DOMAIN procedures : procedures[i].serviceid = service_id]

Siblings(encounter_id) ==
    {i \in DOMAIN athena.services[encounter_id] :
        athena.services[encounter_id][i].procedurecode = C73560}

FirstSibling(encounter_id) ==
    athena.services[encounter_id][
        CHOOSE i \in Siblings(encounter_id) : \A j \in Siblings(encounter_id) : i <= j]

Opposite(modifiers) == IF modifiers = <<"RT">> THEN <<"LT">> ELSE <<"RT">>

\* the writes of the last run that gave RT or LT to a 73564 with a 73560 beside it
SidedWrites ==
    {k \in DOMAIN e_last.log :
        /\ e_last.log[k].ok
        /\ e_last.log[k].modifiers \in {<<"RT">>, <<"LT">>}
        /\ ServiceOf(e_last.log[k].encounter_id, e_last.log[k].service_id).procedurecode = C73564
        /\ Siblings(e_last.log[k].encounter_id) # {}}

LaterWrites(k, encounter_id, service_id) ==
    {m \in DOMAIN e_last.log :
        m > k /\ e_last.log[m].ok /\ e_last.log[m].encounter_id = encounter_id
              /\ e_last.log[m].service_id = service_id}

EncounterOf(i) ==
    IF e_patients[i].appointmentid \in DOMAIN athena.appointments
    THEN athena.appointments[e_patients[i].appointmentid].encounterid
    ELSE NoId

RolledBackAgain == e_last.ran /\ e_last.prev # <<>>

Unchanged(i) ==
    /\ e_last.results[i].status = 3
    /\ EncounterOf(i) \notin e_last.changed

\* C10 as stated: a rollback run right after a rollback run of the same rule,
\* with the remote system answering every call as it did in the first run,
\* gives every patient whose outcome was 3 the outcome 3 again and leaves the
\* services of the patient's encounter as they were before it.
C10_RollbackAgain ==
    (RolledBackAgain /\ e_last.prev[1].same_answers) =>
        \A i \in DOMAIN e_patients : e_last.prev[1].statuses[i] = 3 => Unchanged(i)

(***************************************************************************)
(* Properties of the upsert (SpecUpsert).                                  *)
(***************************************************************************)
UpsertFinishes(w) == pc[w] # "done" /\ pc'[w] = "done"

\* C12: at the step that ends the upsert of a run, the container holds the
\* document of the project id with this run's results, and its created_at is
\* the created_at of the document that was there, whether it was there from
\* the start or written by a concurrent writer after this run's first read;
\* it is the timestamp this run took only when no document was there.
C12_UpsertKeepsCreatedAt ==
    [][\A w \in Writers :
          UpsertFinishes(w) =>
              /\ DOMAIN runs_db' = {ProjectId}
              /\ runs_db'[ProjectId].execution_id = w
              /\ runs_db'[ProjectId].results = <<"results of run", w>>
              /\ runs_db'[ProjectId].created_at =
                    IF Exists THEN runs_db[ProjectId].created_at
                    ELSE task'.locals[w].now]_vars

\* no document at the read of writer 1, writer 2 created it, the create of
\* writer 1 met the conflict and writer 1 updated it with writer 2's created_at
C12_WitnessConflict ==
    /\ pc[1] = "done"
    /\ task.locals[1].path = <<"read", "create", "conflict_read", "conflict_replace">>
    /\ task.locals[2].path = <<"read", "create">>
    /\ pc[2] = "done"
    /\ runs_db[ProjectId].execution_id = 1
    /\ runs_db[ProjectId].created_at = task.locals[2].now
    /\ task.locals[1].now # task.locals[2].now

(***************************************************************************)
(* Properties of rollbacks over persisted runs (SpecRollback).             *)
(***************************************************************************)
\* the (patient id, appointment id) pairs the last rollback changed
RolledBackPairs ==
    {<<o.patientid, o.appointmentid>> : o \in {x \in response.outcomes : x.status = 1}}

\* the documents the last rollback has to mark
RollbackScope ==
    IF response.project_id # NoProject THEN {response.project_id} \cap DOMAIN runs_db
    ELSE {d \in DOMAIN runs_db : runs_db[d].results # <<>>}

RowsOf(d) == {runs_db[d].results[i] : i \in DOMAIN runs_db[d].results}

\* C13 as stated: after a rollback every persisted row, in the document of the
\* project id when one is given and else in every non-empty document, whose
\* pair belongs to a patient with rollback outcome 1 is marked "rollbacked"
\* with a timestamp, and the rollback marked no other row.
C13_RollbackMarksRows ==
    response # <<>> =>
        /\ \A d \in RollbackScope : \A row \in RowsOf(d) :
              <<row.patientid, row.appointmentid>> \in RolledBackPairs =>
                  row.rollback_status = "rollbacked" /\ row.rollbacked_at # 0
        /\ \A d \in DOMAIN runs_db : \A row \in RowsOf(d) :
              row.rollbacked_at = response.now =>
                  /\ <<row.patientid, row.appointmentid>> \in RolledBackPairs
                  /\ d \in RollbackScope

(***************************************************************************)
(* Properties of the readers of the tracker (SpecSnapshot).                *)
(***************************************************************************)
\* C14: every value a reader got from get_progress is the state of the
\* execution between two calls of the tracker: it equals what get_progress
\* gives on the store as the last finished call left it, the finished calls
\* left what the whole methods compute, and its overall patients_processed is
\* the sum of the patients_processed of its rule entries.
C14_ConsistentSnapshot ==
    /\ task.running = NotRunning => progress_store = task.expected
    /\ \A r \in Readers :
          response[r] # <<>> =>
              /\ response[r][1].snapshot = response[r][1].committed
              /\ response[r][1].snapshot.overall.patients_processed =
                    response[r][1].snapshot.rule_21.patients_processed
                        + response[r][1].snapshot.rule_22.patients_processed

\* two readers hold different snapshots, of before and after an update
C14_Witness ==
    /\ response[1] # <<>> /\ response[2] # <<>>
    /\ response[1][1].snapshot.rule_21.patients_processed = 0
    /\ response[2][1].snapshot.rule_21.patients_processed = 50
    /\ response[2][1].snapshot.overall.patients_processed = 50
    /\ t_last.op = "update_rule_progress"

(***************************************************************************)
(* Properties of the rule engines, continued (SpecEngine).                 *)
(***************************************************************************)
\* the appointment of patient i is a missing slip: past, open, charge entry
\* required, and no claim with a procedure
MissingSlip(i) ==
    /\ e_patients[i].appointmentid \in DOMAIN athena.appointments
    /\ LET appointment == athena.appointments[e_patients[i].appointmentid]
       IN  /\ appointment.date = "past"
           /\ appointment.encounterstatus = "OPEN"
           /\ ~appointment.chargeentrynotrequired
           /\ \A c \in DOMAIN appointment.claims : appointment.claims[c] = <<>>
           /\ appointment.encounterid \in DOMAIN athena.services

HasEMCode(i) ==
    \E k \in DOMAIN athena.services[EncounterOf(i)] :
        athena.services[EncounterOf(i)][k].procedurecode \in eligible_codes

HasInjectionCode(i) ==
    \E k \in DOMAIN athena.services[EncounterOf(i)] :
        athena.services[EncounterOf(i)][k].procedurecode \in injection_codes

Rule21ApplyWithoutFailure ==
    e_last.ran /\ e_last.rule = 21 /\ ~e_last.is_rollback /\ e_last.oracle = OkOracle

\* C11: in a Rule 21 apply run with no remote failure, a missing slip whose
\* encounter has an E&M code and an injection code gets, with add_modifiers,
\* status 1 and the reason "modifier 25 added"; one with an E&M code and no
\* injection code gets status 3 and a reason naming the missing injection
\* codes; one with an injection code and no E&M code gets status 3 and a
\* reason naming the missing E&M codes.
C11_Rule21ApplyOutcome ==
    Rule21ApplyWithoutFailure =>
        \A i \in DOMAIN e_patients :
            MissingSlip(i) =>
                /\ (HasEMCode(i) /\ HasInjectionCode(i) /\ e_last.add_modifiers) =>
                        /\ e_last.results[i].status = 1
                        /\ e_last.results[i].reason = "modifier 25 added"
                /\ (HasEMCode(i) /\ ~HasInjectionCode(i)) =>
                        /\ e_last.results[i].status = 3
                        /\ e_last.results[i].reason =
                            "not eligible for modifier: E&M codes present but missing injection codes"
                /\ (~HasEMCode(i) /\ HasInjectionCode(i)) =>
                        /\ e_last.results[i].status = 3
                        /\ e_last.results[i].reason =
                            "not eligible for modifier: injection codes present but missing E&M visit codes"

\* a slip with 99213 and 20610 got status 1, and modifier 25 is on both services
C11_WitnessBoth ==
    /\ Rule21ApplyWithoutFailure /\ e_last.add_modifiers
    /\ MissingSlip(1) /\ HasEMCode(1) /\ HasInjectionCode(1)
    /\ e_last.results[1].status = 1
    /\ \A k \in DOMAIN athena.services[EncounterOf(1)] :
          athena.services[EncounterOf(1)][k].modifiers = <<"25">>

(***************************************************************************)
(* Properties of a submitted run, continued (Spec).                        *)
(***************************************************************************)
\* the submit was accepted and has returned
Accepted == pc \in {"queued", "rules", "upsert", "returned"}

\* execution ids a poller may ask for
PolledIds == {NoId, 1, 2, 3}

\* C15: get_progress finds the execution id that an accepted submit returned,
\* from the moment the submit returns and in one of the four statuses (Pending
\* until the task starts), and answers "not found" for every other id; before
\* a submit, and after a rejected one, it finds no id.
C15_FoundIffCreated ==
    /\ Accepted =>
          /\ response.execution_id # NoId
          /\ get_progress(progress_store, response.execution_id).found
          /\ get_progress(progress_store, response.execution_id).status
                \in {PENDING, RUNNING, COMPLETED, ERROR}
          /\ pc = "queued" =>
                get_progress(progress_store, response.execution_id).status = PENDING
    /\ \A id \in PolledIds :
          (~Accepted \/ id # response.execution_id) =>
              get_progress(progress_store, id) = NotFound

\* the submit has returned, the task has not started: the id is found, Pending
C15_Witness ==
    /\ pc = "queued"
    /\ response.success
    /\ get_progress(progress_store, response.execution_id).found
    /\ get_progress(progress_store, response.execution_id).status = PENDING
    /\ get_progress(progress_store, 2) = NotFound

\* the task of the run has returned
TaskEnded == pc = "returned"

TerminalStatus == {COMPLETED, ERROR}

\* C16: a run that submit accepted reaches the end of its task, and its status
\* is then Completed or Error: it does not stay Pending or Running.
C16_AcceptedRunTerminates ==
    Accepted ~> (TaskEnded /\ progress_store[ExecutionId].status \in TerminalStatus)

\* a run whose rules all went through has ended Completed
C16_Witness ==
    /\ TaskEnded
    /\ task # NoTask
    /\ task.rules_with_errors = <<>>
    /\ Len(task.batches) >= 2
    /\ progress_store[ExecutionId].status = COMPLETED

\* the batches of the rule at position k of the request, in the order they ran
BatchesOfRule(k) ==
    SelectSeq(task.batches, LAMBDA b : b.rule_index = k)

\* the number of slices of BatchSize that n patients make
BatchCount(n) == (n + BatchSize - 1) \div BatchSize

\* C17: within a run the batches run in the order of the request's rules; while
\* the rule at position r runs, every rule before it has ended (completed or
\* failed) and no rule after it has run a batch; a rule that completed ran all
\* its batches before the next rule began.
C17_RulesOneAfterAnother ==
    (task # NoTask) =>
        /\ \A j \in DOMAIN task.batches :
              /\ task.batches[j].rule_index <= task.rule_index
              /\ task.batches[j].rule_index \in DOMAIN unified_request.rules
              /\ \A i \in 1..(j - 1) :
                    task.batches[i].rule_index <= task.batches[j].rule_index
        /\ \A k \in 1..(task.rule_index - 1) : k \in task.completed \cup task.failed
        /\ task.completed \cap task.failed = {}
        /\ \A k \in task.completed :
              /\ k < task.rule_index
              /\ Len(BatchesOfRule(k))
                    = BatchCount(Len(PatientRequestsOf(unified_request.rules[k])))

\* two rules, each with two batches, have run: the second after the first
C17_Witness ==
    /\ task # NoTask
    /\ task.completed = {1, 2}
    /\ Len(BatchesOfRule(1)) = 2
    /\ Len(BatchesOfRule(2)) = 2
    /\ unified_request.rules[1] # unified_request.rules[2]

\* what GET /results answers for the run's id when the tracker holds store
ResultsAnswers(store) ==
    get_execution_results(store, execution_results_store, runs_db, ExecutionId)

\* C18: from the accepted submit to the end of the run GET /results answers 202
\* whenever a handler can run; after the run it answers 200 with the run's
\* results, the cached response if there is one, else the stored document's.
C18_ResultsWhileRunningAndAfter ==
    /\ (pc = "queued" \/ AfterBatch) =>
          ResultsAnswers(progress_store) = {[status_code |-> 202]}
    /\ InBatch => ResultsAnswers(StoreInBatch) = {[status_code |-> 202]}
    /\ (pc = "returned" /\ task # NoTask) =>
          \A answer \in ResultsAnswers(progress_store) :
              /\ answer.status_code = 200
              /\ answer.body = final_response
              /\ answer.from = "memory" <=> ExecutionId \in DOMAIN execution_results_store

(***************************************************************************)
(* Properties of the rule engines: failures of the remote system           *)
(* (SpecEngine).                                                           *)
(***************************************************************************)
ApplyRun == e_last.ran /\ ~e_last.is_rollback

\* the remote system has no appointment for patient i
NoAppointmentData(i) ==
    e_patients[i].appointmentid \notin DOMAIN athena.appointments

\* a remote call the last run made for patient i failed
RemoteCallFailed(i) ==
    \/ e_patients[i].appointmentid \in e_last.oracle.appointment_fails
    \/ /\ e_last.rule = 21
       /\ MissingSlip(i)
       /\ EncounterOf(i) \in e_last.oracle.services_fail
    \/ \E k \in DOMAIN e_last.log :
          /\ ~e_last.log[k].ok
          /\ e_last.log[k].encounter_id = EncounterOf(i)

\* C19: an apply run of either rule answers for every patient of the request,
\* in order; a patient with a failed remote call or without appointment data
\* has status 4; a failure for one patient gives no other patient status 4.
C19_FailureIsPerPatientError ==
    ApplyRun =>
        /\ Len(e_last.results) = Len(e_patients)
        /\ \A i \in DOMAIN e_patients :
              /\ e_last.results[i].patientid = e_patients[i].patientid
              /\ (NoAppointmentData(i) \/ RemoteCallFailed(i)) => e_last.results[i].status = 4
              /\ (~e_last.oracle.token_fails /\ ~NoAppointmentData(i) /\ ~RemoteCallFailed(i))
                    => e_last.results[i].status \in 1..3

(***************************************************************************)
(* Properties of the tracker's percentages during a run (Spec).            *)
(***************************************************************************)
\* 100 * patients_processed / total_patients, clamped to [0, 100]
ClampedPercentage(rule_data) ==
    RatMin(Rat(100 * rule_data.patients_processed, rule_data.total_patients), Hundred)

\* C20: in every state of an accepted run each rule's percentage is
\* 100 * patients_processed / total_patients clamped to [0, 100], and the overall
\* percentage is the sum of the rules' percentages divided by their number.
C20_PercentagesInEveryState ==
    Accepted =>
        LET entry == progress_store[ExecutionId]
            keys == DOMAIN entry.rules
        IN  /\ \A k \in keys :
                  /\ entry.rules[k].total_patients > 0
                  /\ entry.rules[k].percentage = ClampedPercentage(entry.rules[k])
            /\ entry.overall.percentage =
                  RatDivInt(SumOver(entry.rules, keys, "percentage"), Cardinality(keys))

(***************************************************************************)
(* Properties of the rules' statuses during a run (Spec).                  *)
(***************************************************************************)
\* a step of a rule's status that goes back
GoesBack(before, after) ==
    \/ before = COMPLETED /\ after \in {RUNNING, PENDING}
    \/ before = RUNNING /\ after = PENDING

\* C21: during a run no rule's status goes back from Completed to Running (or
\* Pending), or from Running to Pending.
C21_RuleStatusNeverGoesBack ==
    [][(Accepted /\ ExecutionId \in DOMAIN progress_store') =>
          \A k \in DOMAIN progress_store[ExecutionId].rules :
              ~GoesBack(progress_store[ExecutionId].rules[k].status,
                        progress_store'[ExecutionId].rules[k].status)]_vars

(***************************************************************************)
(* Properties of the persisted document under later runs (SpecUpsert).     *)
(***************************************************************************)
\* C22: once a document is stored under the project id, no step removes it or
\* changes its results, and a rollback marker it carries stays; only the
\* marker may be set.
C22_PersistedResultsStay ==
    [][Exists =>
          /\ Exists'
          /\ runs_db'[ProjectId].results = runs_db[ProjectId].results
          /\ runs_db[ProjectId].rollback_status => runs_db'[ProjectId].rollback_status]_vars

(***************************************************************************)
(* Properties of the end of a run (Spec).                                  *)
(***************************************************************************)
\* the stores a poller can find: the task is queued, inside a batch's awaits,
\* in the sleep after a batch, or has returned
ObservableStores ==
    (IF pc \in {"queued", "returned"} \/ AfterBatch THEN {progress_store} ELSE {})
        \cup (IF InBatch THEN {StoreInBatch} ELSE {})

Transient == {"502", "503", "504"}

\* C24: every remote call makes a bounded number of attempts, tries again
\* after a transient answer (502, 503, 504) unless it was the last attempt
\* allowed, sleeps before each new attempt twice as long as before the one
\* before, and makes no attempt after a 403.
C24_BoundedRetryWithBackoff ==
    /\ Len(task.answers) <= max_retries
    /\ Len(task.sleeps) <= Len(task.answers)
    /\ \A k \in DOMAIN task.sleeps : k > 1 => task.sleeps[k] = 2 * task.sleeps[k - 1]
    /\ \A k \in DOMAIN task.answers : task.answers[k] = "403" => k = Len(task.answers)
    /\ pc = "done" =>
          \A k \in DOMAIN task.answers :
              (task.answers[k] \in Transient /\ k < max_retries) => k < Len(task.answers)

(***************************************************************************)
(* Properties of the rule engines: runs that are not asked to write        *)
(* (SpecEngine).                                                           *)
(***************************************************************************)
DryRun == ApplyRun /\ ~e_last.add_modifiers

FetchesSucceeded ==
    /\ ~e_last.oracle.token_fails
    /\ e_last.oracle.appointment_fails = {}
    /\ e_last.oracle.services_fail = {}

\* the condition of Rule 21 holds for patient i
Rule21Condition(i) ==
    MissingSlip(i) /\ HasEMCode(i) /\ HasInjectionCode(i)

\* the condition of Rule 22 holds for patient i: a procedure of the encounter
\* matches the target set and its diagnoses select a modifier
Rule22Condition(i) ==
    /\ EncounterOf(i) \in DOMAIN athena.services
    /\ \E k \in DOMAIN athena.services[EncounterOf(i)] :
          /\ MatchesTarget(athena.services[EncounterOf(i)][k].procedurecode)
          /\ determine_modifier_from_diagnoses(
                 athena.services[EncounterOf(i)][k].diagnoses, 1) # NoModifier

\* C25: an apply run with add_modifiers = FALSE issues no write and changes no
\* procedure of the remote system; when its fetches succeeded, a patient for
\* whom the rule's condition holds has status 2.
C25_DryRunWritesNothing ==
    DryRun =>
        /\ e_last.log = <<>>
        /\ e_last.changed = {}
        /\ FetchesSucceeded =>
              \A i \in DOMAIN e_patients :
                  /\ (e_last.rule = 21 /\ Rule21Condition(i)) => e_last.results[i].status = 2
                  /\ (e_last.rule = 22 /\ Rule22Condition(i)) => e_last.results[i].status = 2

\* Rule 22 was run without add_modifiers on a case whose condition holds
C25_Witness ==
    /\ DryRun
    /\ FetchesSucceeded
    /\ e_last.rule = 22
    /\ \E i \in DOMAIN e_patients : Rule22Condition(i) /\ e_last.results[i].status = 2
    /\ e_last.log = <<>>

(***************************************************************************)
(* Properties of Rule 22's choice of the modifier (SpecEngine).            *)
(***************************************************************************)
Rule22ApplyAndWrite ==
    e_last.ran /\ e_last.rule = 22 /\ ~e_last.is_rollback /\ e_last.add_modifiers

\* an ICD-10 code that selects a modifier: "M" first and 1, 2 or 0 last
Qualifies(icd10code) ==
    /\ icd10code # <<>>
    /\ icd10code[1] = "M"
    /\ icd10code[Len(icd10code)] \in {"1", "2", "0"}

\* the position of the first diagnosis that qualifies, 0 when none does
FirstQualifying(diagnoses) ==
    LET hits == {k \in DOMAIN diagnoses : Qualifies(diagnoses[k].icd10code)}
    IN  IF hits = {} THEN 0 ELSE CHOOSE k \in hits : \A j \in hits : k <= j

SideOf(icd10code) ==
    CASE icd10code[Len(icd10code)] = "1" -> "RT"
      [] icd10code[Len(icd10code)] = "2" -> "LT"
      [] OTHER -> "50"

\* the writes of the last run to service service_id of encounter encounter_id
WritesTo(encounter_id, service_id) ==
    {e_last.log[k] : k \in {j \in DOMAIN e_last.log :
                                /\ e_last.log[j].encounter_id = encounter_id
                                /\ e_last.log[j].service_id = service_id}}

\* C26: in a Rule 22 apply run with add_modifiers, a procedure whose code is
\* in the target set is written with the modifier of its first diagnosis that starts with "M" and
\* ends in 1, 2 or 0 (RT, LT, 50), followed by 59 when the code is 73030, and
\* is not written when no diagnosis qualifies.
C26_ModifierFromFirstDiagnosis ==
    (Rule22ApplyAndWrite /\ FetchesSucceeded) =>
        \A i \in DOMAIN e_patients :
            EncounterOf(i) \in DOMAIN athena.services =>
                \A k \in DOMAIN athena.services[EncounterOf(i)] :
                    LET procedure == athena.services[EncounterOf(i)][k]
                        first == FirstQualifying(procedure.diagnoses)
                        writes == WritesTo(EncounterOf(i), procedure.serviceid)
                    IN  (procedure.procedurecode \in target_procedure_codes) =>
                            IF first = 0 THEN writes = {}
                            ELSE /\ writes # {}
                                 /\ \A w \in writes :
                                       /\ w.fn = "update_service_with_modifier"
                                       /\ w.modifiers =
                                            IF procedure.procedurecode = C73030
                                            THEN <<SideOf(procedure.diagnoses[first].icd10code),
                                                   "59">>
                                            ELSE <<SideOf(procedure.diagnoses[first].icd10code)>>

\* 73030 with the diagnoses S8001, M1711, M1712 was written RT and 59
C26_Witness ==
    /\ Rule22ApplyAndWrite
    /\ e_last.oracle = OkOracle
    /\ \E e \in DOMAIN athena.services : \E k \in DOMAIN athena.services[e] :
          /\ athena.services[e][k].procedurecode = C73030
          /\ Len(athena.services[e][k].diagnoses) = 3
          /\ athena.services[e][k].modifiers = <<"RT", "59">>


(***************************************************************************)
(* Properties of Rule 22's rollback (SpecEngine).                          *)
(***************************************************************************)
Rule22RollbackRun ==
    e_last.ran /\ e_last.rule = 22 /\ e_last.is_rollback

\* C27: in a Rule 22 rollback whose fetches succeeded, every procedure of the
\* encounter whose code is in the target set gets a write that clears all
\* modifiers, and a procedure 73560 gets a write that also carries the
\* icd10codes field reverting its diagnosis.
C27_RollbackClearsAndReverts ==
    (Rule22RollbackRun /\ FetchesSucceeded) =>
        \A i \in DOMAIN e_patients :
            EncounterOf(i) \in DOMAIN athena.services =>
                \A k \in DOMAIN athena.services[EncounterOf(i)] :
                    LET procedure == athena.services[EncounterOf(i)][k]
                        writes == WritesTo(EncounterOf(i), procedure.serviceid)
                    IN  /\ (procedure.procedurecode \in target_procedure_codes) =>
                              \E w \in writes :
                                  /\ w.fn = "rollback_service_modifiers"
                                  /\ w.modifiers = <<>>
                        /\ (procedure.procedurecode = C73560) =>
                              \E w \in writes :
                                  /\ w.fn = "rollback_service_modifiers"
                                  /\ w.modifiers = <<>>
                                  /\ w.icd10codes = <<EmptyCode>>


(***************************************************************************)
(* Properties of Rule 21's rollback (SpecEngine).                          *)
(***************************************************************************)
Rule21RollbackRun ==
    e_last.ran /\ e_last.rule = 21 /\ e_last.is_rollback

\* the requests of the last run that remove modifier 25 from a procedure of
\* patient i's encounter
Removals(i) ==
    {e_last.log[k] : k \in {j \in DOMAIN e_last.log :
                                /\ e_last.log[j].encounter_id = EncounterOf(i)
                                /\ e_last.log[j].fn = "rollback_service_modifier_25"}}

\* C28: in a Rule 21 rollback run, a patient for whom modifier 25 was removed
\* from at least one procedure has status 1, a patient all of whose removals
\* the remote system rejected has status 3, and the run still returns a result
\* for every patient.
C28_RollbackOutcomes ==
    (Rule21RollbackRun /\ FetchesSucceeded) =>
        /\ Len(e_last.results) = Len(e_patients)
        /\ \A i \in DOMAIN e_patients :
              /\ (\E w \in Removals(i) : w.ok) => e_last.results[i].status = 1
              /\ (Removals(i) # {} /\ \A w \in Removals(i) : ~w.ok) =>
                    e_last.results[i].status = 3


(***************************************************************************)
(* Properties of an apply run followed by a rollback run (SpecEngine).     *)
(***************************************************************************)
SeqToSet(seq) == {seq[k] : k \in DOMAIN seq}

\* the last run was an apply run with add_modifiers all of whose remote calls
\* succeeded
AppliedAndWritten ==
    e_last.ran /\ ~e_last.is_rollback /\ e_last.add_modifiers /\ e_last.oracle = OkOracle

\* the modifiers the last run assigned to service service_id of encounter
\* encounter_id
Assigned(encounter_id, service_id) ==
    UNION {SeqToSet(w.modifiers) : w \in WritesTo(encounter_id, service_id)}

\* C29: when an apply run with add_modifiers is followed by a rollback run of
\* the same rule on the same patients and every remote call of both runs
\* succeeds, no procedure carries afterwards a modifier the apply run assigned
\* to it.
C29_RollbackUndoesApply ==
    [][(/\ AppliedAndWritten
        /\ e_last'.ran /\ e_last'.is_rollback
        /\ e_last'.rule = e_last.rule
        /\ e_last'.oracle = OkOracle)
       => \A e \in DOMAIN athena'.services : \A k \in DOMAIN athena'.services[e] :
              SeqToSet(athena'.services[e][k].modifiers)
                  \cap Assigned(e, athena'.services[e][k].serviceid) = {}]_vars


(***************************************************************************)
(* Properties of the result list of a run (SpecEngine).                    *)
(***************************************************************************)
\* C30: every run of Rule21.run or Rule22.run, apply or rollback, returns one
\* result per requested patient, in the order of the request, each with a
\* status from 1 to 4, also when the token call raises.
C30_OneResultPerPatient ==
    e_last.ran =>
        /\ Len(e_last.results) = Len(e_patients)
        /\ \A i \in DOMAIN e_patients :
              /\ e_last.results[i].patientid = e_patients[i].patientid
              /\ e_last.results[i].appointmentid = e_patients[i].appointmentid
              /\ e_last.results[i].status \in 1..4

\* a rollback of two patients whose token call raised: two results, in order,
\* both status 4
C30_Witness ==
    /\ e_last.ran
    /\ e_last.is_rollback
    /\ e_last.oracle.token_fails
    /\ Len(e_patients) = 2
    /\ Len(e_last.results) = 2
    /\ \A i \in 1..2 : /\ e_last.results[i].patientid = e_patients[i].patientid
                       /\ e_last.results[i].status = 4

====
